---- MODULE Spec2Model ----
(***************************************************************************)
(* Model of Part3/healthcare_premium_pipeline.py: the HealthcarePremium-   *)
(* Pipeline class (reshaping, merging, trend features, feature assembly,  *)
(* two-stage regressor, persistence) and the main() driver.               *)
(*                                                                         *)
(* Numbers.  A numeric table cell is an optional fixed-point number: the   *)
(* empty sequence <<>> is NaN / None, <<n>> is the float n / Q.  Quarters *)
(* hold every premium, lag, difference of lags and half of such a        *)
(* difference exactly.                                                    *)
(***************************************************************************)
EXTENDS Integers, Sequences, FiniteSets, TLC

\* ------------------------------------------------------------------------
\* Bounds of the model
\* ------------------------------------------------------------------------
FirstYear == 2020
NumYears == 3
MaxKffRows == 3
MaxCdcRows == 3
\* the number of calls on pipeline objects in a run
MaxCalls == 4

Years == FirstYear .. (FirstYear + NumYears - 1)
LastYear == FirstYear + NumYears - 1

\* ------------------------------------------------------------------------
\* Optional fixed-point numbers
\* ------------------------------------------------------------------------
\* fixed-point denominator of a numeric cell (quarters)
Q == 2 * 2
NaN == <<>>
Num(x) == <<x * Q>>
IsNa(v) == v = <<>>
Val(v) == v[1]

\* NaN of a string column (Location)
NaStr == "<NA>"

\* ------------------------------------------------------------------------
\* Sequence helpers
\* ------------------------------------------------------------------------
Range(s) == {s[i] : i \in 1..Len(s)}

Contains(s, x) == \E i \in 1..Len(s) : s[i] = x

\* the subsequence of s at the (increasing) positions satisfying keep
RECURSIVE FilterIdx(_, _, _)
FilterIdx(s, keepAt, i) ==
    IF i > Len(s) THEN <<>>
    ELSE (IF keepAt[i] THEN <<s[i]>> ELSE <<>>) \o FilterIdx(s, keepAt, i + 1)

\* a function written as [x \in S |-> e], held as an explicit tuple (Tup) or
\* an explicit function (Fcn) rather than as a rule to evaluate at each use
Tup(s) == s \o <<>>
Fcn(f) == f @@ <<>>

RECURSIVE FlattenSeq(_)
FlattenSeq(ss) == IF ss = <<>> THEN <<>> ELSE Head(ss) \o FlattenSeq(Tail(ss))

\* a table (DataFrame): the column labels in order and the rows in order;
\* every row is a function from the column labels to cells
Table(cols, rows) == [columns |-> cols, rows |-> rows]
EmptyTable == Table(<<>>, <<>>)
HasCol(t, c) == Contains(t.columns, c)
DropCol(t, c) ==
    Table(SelectSeq(t.columns, LAMBDA x : x # c),
          Tup([i \in 1..Len(t.rows) |->
              Fcn([x \in (DOMAIN t.rows[i]) \ {c} |-> t.rows[i][x]])]))

\* ------------------------------------------------------------------------
\* HealthcarePremiumPipeline.__init__ : the static mappings
\* ------------------------------------------------------------------------
state_fips_to_name ==
    (1 :> "Alabama" @@ 2 :> "Alaska" @@ 4 :> "Arizona" @@ 5 :> "Arkansas" @@
     6 :> "California" @@ 8 :> "Colorado" @@ 9 :> "Connecticut" @@
     10 :> "Delaware" @@ 12 :> "Florida" @@ 13 :> "Georgia" @@ 15 :> "Hawaii" @@
     16 :> "Idaho" @@ 17 :> "Illinois" @@ 18 :> "Indiana" @@ 19 :> "Iowa" @@
     20 :> "Kansas" @@ 21 :> "Kentucky" @@ 22 :> "Louisiana" @@ 23 :> "Maine" @@
     24 :> "Maryland" @@ 25 :> "Massachusetts" @@ 26 :> "Michigan" @@
     27 :> "Minnesota" @@ 28 :> "Mississippi" @@ 29 :> "Missouri" @@
     30 :> "Montana" @@ 31 :> "Nebraska" @@ 32 :> "Nevada" @@
     33 :> "New Hampshire" @@ 34 :> "New Jersey" @@ 35 :> "New Mexico" @@
     36 :> "New York" @@ 37 :> "North Carolina" @@ 38 :> "North Dakota" @@
     39 :> "Ohio" @@ 40 :> "Oklahoma" @@ 41 :> "Oregon" @@ 42 :> "Pennsylvania" @@
     44 :> "Rhode Island" @@ 45 :> "South Carolina" @@ 46 :> "South Dakota" @@
     47 :> "Tennessee" @@ 48 :> "Texas" @@ 49 :> "Utah" @@ 50 :> "Vermont" @@
     51 :> "Virginia" @@ 53 :> "Washington" @@ 54 :> "West Virginia" @@
     55 :> "Wisconsin" @@ 56 :> "Wyoming")

\* health_feature_mapping, as the ordered list of its (key, value) items
health_feature_mapping ==
    << <<"mean_BMI_w", "bmi_avg">>,
       <<"diabetes_prev_w", "diabetes_prev">>,
       <<"asthma_now_prev_w", "asthma_curr_prev">>,
       <<"copd_prev_w", "copd_prev">>,
       <<"chd_prev_w", "chd_prev">>,
       <<"stroke_prev_w", "stroke_prev">>,
       <<"kidney_disease_prev_w", "kidney_prev">>,
       <<"arthritis_prev_w", "arthritis_prev">>,
       <<"any_cancer_prev_w", "cancer_prev">>,
       <<"current_smoker_prev_w", "current_smoker_prev">> >>

HealthKeys == Tup([i \in 1..Len(health_feature_mapping) |-> health_feature_mapping[i][1]])
HealthValues == Tup([i \in 1..Len(health_feature_mapping) |-> health_feature_mapping[i][2]])

\* ------------------------------------------------------------------------
\* _extract_metal_tier
\* ------------------------------------------------------------------------
\* Text is a sequence of one-character strings
StrBronze == <<"B", "r", "o", "n", "z", "e">>
StrSilver == <<"S", "i", "l", "v", "e", "r">>
StrBenchmark == <<"B", "e", "n", "c", "h", "m", "a", "r", "k">>
StrGold == <<"G", "o", "l", "d">>
StrAverage == <<"A", "v", "e", "r", "a", "g", "e">>
StrLowestCost == <<"L", "o", "w", "e", "s", "t", "-", "C", "o", "s", "t">>
StrPremium == <<"P", "r", "e", "m", "i", "u", "m">>
StrSpace == <<" ">>

\* Python's "w in s" for strings
In(w, s) == \E i \in 1..(Len(s) - Len(w) + 1) : SubSeq(s, i, i + Len(w) - 1) = w

\* _extract_metal_tier without the Benchmark alternative
extract_metal_tier_no_benchmark(tier_raw) ==
    IF In(StrBronze, tier_raw) THEN "Bronze"
    ELSE IF In(StrSilver, tier_raw) THEN "Silver"
    ELSE IF In(StrGold, tier_raw) THEN "Gold"
    ELSE "Unknown"

_extract_metal_tier(tier_raw) ==
    IF In(StrBronze, tier_raw) THEN "Bronze"
    ELSE IF In(StrSilver, tier_raw) \/ In(StrBenchmark, tier_raw) THEN "Silver"
    ELSE IF In(StrGold, tier_raw) THEN "Gold"
    ELSE "Unknown"

\* ------------------------------------------------------------------------
\* preprocess_kff : wide -> long
\* ------------------------------------------------------------------------
value_vars ==
    <<"Average Lowest-Cost Bronze Premium",
      "Average Lowest-Cost Silver Premium",
      "Average Benchmark Premium",
      "Average Lowest-Cost Gold Premium">>

\* the text of the labels of value_vars
value_vars_text ==
    <<StrAverage \o StrSpace \o StrLowestCost \o StrSpace \o StrBronze \o StrSpace \o StrPremium,
      StrAverage \o StrSpace \o StrLowestCost \o StrSpace \o StrSilver \o StrSpace \o StrPremium,
      StrAverage \o StrSpace \o StrBenchmark \o StrSpace \o StrPremium,
      StrAverage \o StrSpace \o StrLowestCost \o StrSpace \o StrGold \o StrSpace \o StrPremium>>

TextOf(label) == value_vars_text[CHOOSE k \in 1..Len(value_vars) : value_vars[k] = label]

\* a premium cell read as text: the tag "s" and the characters; a numeric
\* cell has at most one element
Text(chars) == <<"s", chars>>
IsText(v) == Len(v) = 2

\* pd.melt over the value columns that the table has, no KeyError for the
\* others
melt_present_columns(kff) ==
    LET present == SelectSeq(value_vars, LAMBDA c : HasCol(kff, c))
        raised == ~HasCol(kff, "Location") \/ ~HasCol(kff, "Year")
    IN [raised |-> raised,
        table |->
            IF raised THEN EmptyTable
            ELSE Table(<<"Location", "Year", "Metal_Tier_Raw", "Premium_Y">>,
                       FlattenSeq(Tup([v \in 1..Len(present) |->
                           Tup([i \in 1..Len(kff.rows) |->
                               [Location |-> kff.rows[i].Location,
                                Year |-> kff.rows[i].Year,
                                Metal_Tier_Raw |-> present[v],
                                Premium_Y |-> kff.rows[i][present[v]]]])])))]

\* pd.melt: KeyError when an id column or a value column is not in the
\* table; else one block of rows per value column, in the order of
\* value_vars, each block in the row order of the wide table
Melt(kff) ==
    LET raised == \E c \in {"Location", "Year"} \cup Range(value_vars) : ~HasCol(kff, c)
    IN [raised |-> raised,
        table |->
            IF raised THEN EmptyTable
            ELSE Table(<<"Location", "Year", "Metal_Tier_Raw", "Premium_Y">>,
                       FlattenSeq(Tup([v \in 1..Len(value_vars) |->
                           Tup([i \in 1..Len(kff.rows) |->
                               [Location |-> kff.rows[i].Location,
                                Year |-> kff.rows[i].Year,
                                Metal_Tier_Raw |-> value_vars[v],
                                Premium_Y |-> kff.rows[i][value_vars[v]]]])])))]

\* str.replace('$', '').str.replace(',', '')
RemoveCurrency(chars) == SelectSeq(chars, LAMBDA c : c # "$" /\ c # ",")

\* float() ignores white space around the number
RECURSIVE Strip(_)
Strip(chars) ==
    IF chars = <<>> THEN <<>>
    ELSE IF Head(chars) = " " THEN Strip(Tail(chars))
    ELSE IF chars[Len(chars)] = " " THEN Strip(SubSeq(chars, 1, Len(chars) - 1))
    ELSE chars

Digits == <<"0", "1", "2", "3", "4", "5", "6", "7", "8", "9">>
IsDigit(c) == Contains(Digits, c)
DigitVal(c) == (CHOOSE k \in 1..Len(Digits) : Digits[k] = c) - 1

RECURSIVE DecimalVal(_)
DecimalVal(ds) ==
    IF ds = <<>> THEN 0 ELSE DecimalVal(SubSeq(ds, 1, Len(ds) - 1)) * 10 + DigitVal(ds[Len(ds)])

RECURSIVE Pow10(_)
Pow10(k) == IF k = 0 THEN 1 ELSE 10 * Pow10(k - 1)

\* the parts of a decimal numeral: sign, digits before and after the point
Numeral(chars) ==
    LET signed == chars # <<>> /\ Head(chars) \in {"-", "+"}
        body == IF signed THEN Tail(chars) ELSE chars
        dots == {i \in 1..Len(body) : body[i] = "."}
        dot == IF dots = {} THEN Len(body) + 1 ELSE CHOOSE i \in dots : \A j \in dots : i <= j
    IN [negative |-> signed /\ Head(chars) = "-",
        int |-> SubSeq(body, 1, dot - 1),
        frac |-> SubSeq(body, dot + 1, Len(body))]

\* float(text) raises ValueError unless the text is a decimal numeral (the
\* texts of the model have no exponent, "inf", "nan" or "_")
FloatRaises(chars) ==
    LET n == Numeral(Strip(chars))
    IN \/ \E i \in 1..Len(n.int) : ~IsDigit(n.int[i])
       \/ \E i \in 1..Len(n.frac) : ~IsDigit(n.frac[i])
       \/ Len(n.int) + Len(n.frac) = 0

\* float(text) as a cell: quarters (the numerals of the model are whole
\* quarters)
Float(chars) ==
    LET n == Numeral(Strip(chars))
        quarters == DecimalVal(n.int) * Q + (DecimalVal(n.frac) * Q) \div Pow10(Len(n.frac))
    IN <<IF n.negative THEN 0 - quarters ELSE quarters>>

\* kff_long['Premium_Y'].dtype == 'object': some premium is text
IsObject(rows) == \E i \in 1..Len(rows) : IsText(rows[i].Premium_Y)

\* the .str methods give NaN for a cell that is not text
CleanRaises(rows) ==
    \E i \in 1..Len(rows) :
        IsText(rows[i].Premium_Y) /\ FloatRaises(RemoveCurrency(rows[i].Premium_Y[2]))

Clean(v) == IF IsText(v) THEN Float(RemoveCurrency(v[2])) ELSE NaN

preprocess_kff_raises(kff) ==
    \/ Melt(kff).raised
    \/ IsObject(Melt(kff).table.rows) /\ CleanRaises(Melt(kff).table.rows)

preprocess_kff(kff) ==
    LET melted == Melt(kff).table
        object == IsObject(melted.rows)
    IN Table(<<"Location", "Year", "Premium_Y", "Metal_Tier">>,
             Tup([i \in 1..Len(melted.rows) |->
                 [Location |-> melted.rows[i].Location,
                  Year |-> melted.rows[i].Year,
                  Premium_Y |-> IF object THEN Clean(melted.rows[i].Premium_Y)
                                ELSE melted.rows[i].Premium_Y,
                  Metal_Tier |-> _extract_metal_tier(TextOf(melted.rows[i].Metal_Tier_Raw))]]))

\* ------------------------------------------------------------------------
\* preprocess_cdc
\* ------------------------------------------------------------------------
\* cdc_df['Location'] = cdc_df['_STATE'].map(state_fips_to_name): the column
\* is added to the caller's table; a code outside the mapping gives NaN
MapState(cdc) ==
    Table(cdc.columns \o <<"Location">>,
          Tup([i \in 1..Len(cdc.rows) |->
              Fcn([c \in (DOMAIN cdc.rows[i]) \cup {"Location"} |->
                  IF c = "Location"
                  THEN (IF cdc.rows[i]["_STATE"] \in DOMAIN state_fips_to_name
                        THEN state_fips_to_name[cdc.rows[i]["_STATE"]]
                        ELSE NaStr)
                  ELSE cdc.rows[i][c]])]))

\* the caller's table after the call
preprocess_cdc_input(cdc) ==
    IF ~HasCol(cdc, "Location") /\ HasCol(cdc, "_STATE") THEN MapState(cdc) ELSE cdc

RenameCdc(c) ==
    IF c = "IYEAR" THEN "CDC_Year"
    ELSE IF \E i \in 1..Len(health_feature_mapping) : health_feature_mapping[i][1] = c
         THEN health_feature_mapping[
                  CHOOSE i \in 1..Len(health_feature_mapping) :
                      health_feature_mapping[i][1] = c][2]
         ELSE c

preprocess_cdc(cdc) ==
    LET df == preprocess_cdc_input(cdc)
        available_cdc_cols == SelectSeq(HealthKeys, LAMBDA col : HasCol(df, col))
        select_cols == <<"Location", "IYEAR">> \o available_cdc_cols
        renamed == Tup([k \in 1..Len(select_cols) |-> RenameCdc(select_cols[k])])
    IN Table(renamed,
             Tup([i \in 1..Len(df.rows) |->
                 Fcn([c \in Range(renamed) |->
                     df.rows[i][select_cols[CHOOSE k \in 1..Len(select_cols) :
                                                renamed[k] = c]]])]))

\* ------------------------------------------------------------------------
\* merge_data : inner join on (Location, KFF_Year = Year)
\* ------------------------------------------------------------------------
\* a join that also takes the premium rows one year away
matches_within_one_year(l, right) ==
    LET keep == Tup([j \in 1..Len(right.rows) |->
                    /\ right.rows[j].Location = l.Location
                    /\ right.rows[j].Year - l.KFF_Year \in {-1, 0, 1}])
    IN FilterIdx(right.rows, keep, 1)

\* the rows of the right table matching one left row, in right order
MatchesOf(l, right) ==
    LET keep == Tup([j \in 1..Len(right.rows) |->
                    right.rows[j].Location = l.Location /\ right.rows[j].Year = l.KFF_Year])
    IN FilterIdx(right.rows, keep, 1)

merge_data(kff_long_t, cdc_features_t) ==
    LET cdc_same_year ==
            Table(cdc_features_t.columns \o <<"KFF_Year">>,
                  Tup([i \in 1..Len(cdc_features_t.rows) |->
                      Fcn([c \in (DOMAIN cdc_features_t.rows[i]) \cup {"KFF_Year"} |->
                          IF c = "KFF_Year" THEN cdc_features_t.rows[i].CDC_Year
                          ELSE cdc_features_t.rows[i][c]])]))
        rightCols == SelectSeq(kff_long_t.columns, LAMBDA c : c # "Location")
        Joined(l, r) ==
            Fcn([c \in (DOMAIN l) \cup Range(rightCols) |->
                IF c \in DOMAIN l THEN l[c] ELSE r[c]])
        merged ==
            Table(cdc_same_year.columns \o rightCols,
                  FlattenSeq(Tup([i \in 1..Len(cdc_same_year.rows) |->
                      LET m == MatchesOf(cdc_same_year.rows[i], kff_long_t)
                      IN Tup([j \in 1..Len(m) |-> Joined(cdc_same_year.rows[i], m[j])])])))
    IN DropCol(merged, "Year")

\* ------------------------------------------------------------------------
\* generate_trend_features
\* ------------------------------------------------------------------------
\* aggfunc='first': the first non-NaN premium of the group, NaN if none
RECURSIVE FirstOf(_, _, _, _, _)
FirstOf(rows, loc, tier, year, i) ==
    IF i > Len(rows) THEN NaN
    ELSE IF /\ rows[i].Location = loc /\ rows[i].Metal_Tier = tier
            /\ rows[i].KFF_Year = year /\ ~IsNa(rows[i].Premium_Y)
         THEN rows[i].Premium_Y
         ELSE FirstOf(rows, loc, tier, year, i + 1)

\* the columns of the pivot table: the years with a non-NaN aggregate
PivotYears(df) ==
    {df.rows[i].KFF_Year : i \in {k \in 1..Len(df.rows) :
        df.rows[k].Location # NaStr /\ ~IsNa(df.rows[k].Premium_Y)}}

\* the index of the pivot table: groups with a NaN key or without any
\* non-NaN aggregate are not in it
PivotIndex(df) ==
    {<<df.rows[i].Location, df.rows[i].Metal_Tier>> : i \in {k \in 1..Len(df.rows) :
        df.rows[k].Location # NaStr /\ ~IsNa(df.rows[k].Premium_Y)}}

\* a lookup that crosses gap years: the aggregate of the nearest earlier year
RECURSIVE SeriesGetNearest(_, _, _, _)
SeriesGetNearest(df, loc, tier, year) ==
    IF \A y \in PivotYears(df) : y > year THEN NaN
    ELSE IF ~IsNa(FirstOf(df.rows, loc, tier, year, 1))
         THEN FirstOf(df.rows, loc, tier, year, 1)
         ELSE SeriesGetNearest(df, loc, tier, year - 1)

\* premium_pivot.loc[(loc, tier)].get(year, np.nan)
SeriesGet(df, loc, tier, year) ==
    IF year \in PivotYears(df) THEN FirstOf(df.rows, loc, tier, year, 1) ELSE NaN

get_trends(df, row) ==
    LET loc == row.Location
        tier == row.Metal_Tier
        year == row.KFF_Year
    IN IF <<loc, tier>> \in PivotIndex(df)
       THEN LET lag1 == SeriesGet(df, loc, tier, year - 1)
                lag2 == SeriesGet(df, loc, tier, year - 2)
                trend1 == IF ~IsNa(lag1) /\ ~IsNa(lag2)
                          THEN <<Val(lag1) - Val(lag2)>> ELSE NaN
                trend2_avg == IF ~IsNa(trend1) THEN <<Val(trend1) \div 2>> ELSE NaN
            IN <<lag1, lag2, trend1, trend2_avg>>
       ELSE <<NaN, NaN, NaN, NaN>>

trend_names == <<"premium_lag1", "premium_lag2", "trend_1y", "trend_2y_avg">>

\* generate_trend_features_raises, but the lookup of a row whose key is not
\* in the index raises as well
raises_on_absent_key(df) ==
    \/ Len(df.rows) = 0
    \/ \E i \in 1..Len(df.rows) :
           <<df.rows[i].Location, df.rows[i].Metal_Tier>> \notin PivotIndex(df)

\* DataFrame.apply over a table without rows returns a copy of the table,
\* and assigning it to the four trend columns raises ValueError
generate_trend_features_raises(df) == Len(df.rows) = 0

generate_trend_features(df) ==
    Table(df.columns \o trend_names,
          Tup([i \in 1..Len(df.rows) |->
              LET t == get_trends(df, df.rows[i])
              IN Fcn([c \in (DOMAIN df.rows[i]) \cup Range(trend_names) |->
                     IF c \in Range(trend_names)
                     THEN t[CHOOSE k \in 1..4 : trend_names[k] = c]
                     ELSE df.rows[i][c]])]))

\* ------------------------------------------------------------------------
\* Integer helpers for the fitted transforms
\* ------------------------------------------------------------------------
RECURSIVE SumSeq(_)
SumSeq(s) == IF s = <<>> THEN 0 ELSE Head(s) + SumSeq(Tail(s))

\* floor of the square root, by bisection on lo <= r < hi
RECURSIVE ISqrtIn(_, _, _)
ISqrtIn(n, lo, hi) ==
    IF hi - lo <= 1 THEN lo
    ELSE LET mid == (lo + hi) \div 2
         IN IF mid <= n \div mid THEN ISqrtIn(n, mid, hi) ELSE ISqrtIn(n, lo, mid)

ISqrt(n) == IF n <= 0 THEN 0 ELSE ISqrtIn(n, 1, n + 1)

Abs(x) == IF x < 0 THEN -x ELSE x

\* ------------------------------------------------------------------------
\* LabelEncoder
\* ------------------------------------------------------------------------
\* the tier labels in the sort order of np.unique
TierOrder == <<"Bronze", "Gold", "Silver", "Unknown">>

\* LabelEncoder.fit: classes_ = the sorted distinct labels
LabelEncoderFit(labels) ==
    [fitted |-> TRUE, classes |-> SelectSeq(TierOrder, LAMBDA t : Contains(labels, t))]

\* LabelEncoder.transform raises on an unfitted encoder and on a label that
\* is not in classes_
LabelEncoderRaises(le, labels) ==
    \/ ~le.fitted
    \/ \E i \in 1..Len(labels) : ~Contains(le.classes, labels[i])

\* LabelEncoder.transform: the 0-based position of the label in classes_
LabelEncoderTransform(le, labels) ==
    Tup([i \in 1..Len(labels) |->
        (CHOOSE k \in 1..Len(le.classes) : le.classes[k] = labels[i]) - 1])

\* ------------------------------------------------------------------------
\* SimpleImputer(strategy='median').  Imputed values are in units of
\* 1 / (2 Q), so that the median of an even number of cells is exact.
\* ------------------------------------------------------------------------
ColumnOf(rows, k) == Tup([i \in 1..Len(rows) |-> rows[i][k]])

Observed(col) == SelectSeq(col, LAMBDA v : ~IsNa(v))

\* the median of the observed cells of a column, NaN if there is none
Median(col) ==
    LET obs == Observed(col)
        sorted == SortSeq(Tup([i \in 1..Len(obs) |-> Val(obs[i])]), LAMBDA a, b : a < b)
        n == Len(sorted)
    IN IF n = 0 THEN NaN
       ELSE IF n % 2 = 1 THEN <<2 * sorted[(n + 1) \div 2]>>
       ELSE <<sorted[n \div 2] + sorted[n \div 2 + 1]>>

\* SimpleImputer.fit raises on a matrix without rows
ImputerFitRaises(names, rows) == Len(rows) = 0

ImputerFit(names, rows) ==
    [fitted |-> TRUE,
     feature_names_in |-> names,
     statistics |-> Tup([k \in 1..Len(names) |-> Median(ColumnOf(rows, k))])]

\* SimpleImputer.transform raises on an unfitted imputer, on a frame whose
\* column names are not those seen by fit and on a frame without rows
ImputerTransformRaises(imp, names, rows) ==
    \/ ~imp.fitted
    \/ imp.feature_names_in # names
    \/ Len(rows) = 0

\* SimpleImputer.transform: NaN cells get the statistic of their column;
\* the columns without statistic (no observed cell at fit time) are dropped
ImputerTransform(imp, rows) ==
    LET keep == Tup([k \in 1..Len(imp.statistics) |-> ~IsNa(imp.statistics[k])])
    IN Tup([i \in 1..Len(rows) |->
           FilterIdx(Tup([k \in 1..Len(imp.statistics) |->
                         IF ~keep[k] THEN 0
                         ELSE IF IsNa(rows[i][k]) THEN Val(imp.statistics[k])
                         ELSE 2 * Val(rows[i][k])]),
                     keep, 1)])

\* ------------------------------------------------------------------------
\* StandardScaler.  With n rows, S the sum and SS the sum of squares of a
\* column, (x - mean) / std = (n x - S) / sqrt(n SS - S^2); a column of
\* variance 0 has scale_ 1.  Scaled values are in units of 1 / ZScale.
\* ------------------------------------------------------------------------
ZScale == 2 * 5

ScalerFit(rows) ==
    LET width == IF Len(rows) = 0 THEN 0 ELSE Len(rows[1])
        n == Len(rows)
    IN [fitted |-> TRUE,
        n_samples |-> n,
        sums |-> Tup([k \in 1..width |-> SumSeq(ColumnOf(rows, k))]),
        \* 4 sqrt(n SS - S^2), 0 for a column of variance 0
        scale4 |-> Tup([k \in 1..width |->
            LET col == ColumnOf(rows, k)
                S == SumSeq(col)
                SS == SumSeq(Tup([i \in 1..n |-> col[i] * col[i]]))
            IN ISqrt(16 * (n * SS - S * S))])]

\* StandardScaler.transform raises on an unfitted scaler and on a matrix of
\* another width than the fitted one
ScalerTransformRaises(sc, rows) ==
    \/ ~sc.fitted
    \/ \E i \in 1..Len(rows) : Len(rows[i]) # Len(sc.sums)

ScalerTransform(sc, rows) ==
    Tup([i \in 1..Len(rows) |->
        Tup([k \in 1..Len(sc.sums) |->
            LET num == sc.n_samples * rows[i][k] - sc.sums[k]
            IN IF sc.scale4[k] = 0
               THEN (ZScale * num) \div (2 * Q * sc.n_samples)
               ELSE (ZScale * 4 * num) \div sc.scale4[k]])])

\* ------------------------------------------------------------------------
\* The pipeline object
\* ------------------------------------------------------------------------
\* the estimators as built by their constructors: nothing fitted
NewXGBRegressor ==
    [fitted |-> FALSE, n_features |-> 0, base_score |-> 0, best_iteration |-> 0,
     leaves |-> <<>>]
NewSimpleImputer == [fitted |-> FALSE, feature_names_in |-> <<>>, statistics |-> <<>>]
NewStandardScaler == [fitted |-> FALSE, n_samples |-> 0, sums |-> <<>>, scale4 |-> <<>>]
NewLabelEncoder == [fitted |-> FALSE, classes |-> <<>>]

\* the attributes set by __init__ that the operations change
NewPipeline ==
    [base_model |-> NewXGBRegressor,
     residual_model |-> NewXGBRegressor,
     imputer |-> NewSimpleImputer,
     scaler |-> NewStandardScaler,
     le_metal |-> NewLabelEncoder,
     feature_cols |-> <<>>]

\* ------------------------------------------------------------------------
\* prepare_features
\* ------------------------------------------------------------------------
NoResult == [X |-> <<>>, y_present |-> FALSE, y |-> <<>>]

\* the outcome of a call: the object after it, whether it raised, and the
\* returned (X_scaled, y)
Outcome(self, raised, X, y_present, y) ==
    [self |-> self, raised |-> raised, X |-> X, y_present |-> y_present, y |-> y]

Raise(self) == Outcome(self, TRUE, <<>>, FALSE, <<>>)

\* prepare_features, but a training call also rebuilds the two models as
\* __init__ builds them
prepare_features_new_models(self, df, training) ==
    LET health_cols == SelectSeq(HealthValues, LAMBDA col : HasCol(df, col))
        feature_cols == health_cols \o trend_names \o <<"Metal_Tier">>
        \* line 206
        s1 == IF training
              THEN [self EXCEPT !.feature_cols = feature_cols,
                                !.base_model = NewXGBRegressor,
                                !.residual_model = NewXGBRegressor]
              ELSE self
        labels == Tup([i \in 1..Len(df.rows) |-> df.rows[i].Metal_Tier])
        \* line 208
        s2 == IF training THEN [s1 EXCEPT !.le_metal = LabelEncoderFit(labels)] ELSE s1
        missing_cols == SelectSeq(s2.feature_cols,
                                  LAMBDA c : ~HasCol(df, c) /\ c # "Metal_Tier")
        \* lines 215-219: the frame X, Metal_Tier replaced by its code, last
        x_names == SelectSeq(s2.feature_cols, LAMBDA c : c # "Metal_Tier")
                       \o <<"Metal_Tier_Encoded">>
        codes == LabelEncoderTransform(s2.le_metal, labels)
        x_rows == Tup([i \in 1..Len(df.rows) |->
                      Tup([k \in 1..Len(x_names) |->
                          IF x_names[k] = "Metal_Tier_Encoded" THEN Num(codes[i])
                          ELSE df.rows[i][x_names[k]]])])
        \* lines 222-225
        imp == ImputerFit(x_names, x_rows)
        s3 == [s2 EXCEPT !.imputer = imp]
        s4 == [s3 EXCEPT !.scaler = ScalerFit(ImputerTransform(imp, x_rows))]
        y_present == HasCol(df, "Premium_Y")
        y == IF y_present THEN Tup([i \in 1..Len(df.rows) |-> df.rows[i].Premium_Y]) ELSE <<>>
    IN \* line 208: df['Metal_Tier'] raises KeyError
       IF training /\ ~HasCol(df, "Metal_Tier") THEN Raise(s1)
       \* line 213
       ELSE IF missing_cols # <<>> THEN Raise(s2)
       \* line 215: df[self.feature_cols] raises KeyError; line 218: X['Metal_Tier']
       ELSE IF ~HasCol(df, "Metal_Tier") \/ ~Contains(s2.feature_cols, "Metal_Tier")
            THEN Raise(s2)
       \* line 218
       ELSE IF LabelEncoderRaises(s2.le_metal, labels) THEN Raise(s2)
       ELSE IF training
       THEN (IF ImputerFitRaises(x_names, x_rows) THEN Raise(s2)
             ELSE Outcome(s4, FALSE,
                          ScalerTransform(s4.scaler, ImputerTransform(imp, x_rows)),
                          y_present, y))
       ELSE IF ImputerTransformRaises(s2.imputer, x_names, x_rows) THEN Raise(s2)
       ELSE IF ScalerTransformRaises(s2.scaler, ImputerTransform(s2.imputer, x_rows))
            THEN Raise(s2)
       ELSE Outcome(s2, FALSE,
                    ScalerTransform(s2.scaler, ImputerTransform(s2.imputer, x_rows)),
                    y_present, y)

\* prepare_features, but the call fits the list and the transforms whatever
\* the training flag
prepare_features_always_fits(self, df, training) ==
    LET health_cols == SelectSeq(HealthValues, LAMBDA col : HasCol(df, col))
        feature_cols == health_cols \o trend_names \o <<"Metal_Tier">>
        \* line 206
        s1 == [self EXCEPT !.feature_cols = feature_cols]
        labels == Tup([i \in 1..Len(df.rows) |-> df.rows[i].Metal_Tier])
        \* line 208
        s2 == IF HasCol(df, "Metal_Tier")
              THEN [s1 EXCEPT !.le_metal = LabelEncoderFit(labels)] ELSE s1
        missing_cols == SelectSeq(s2.feature_cols,
                                  LAMBDA c : ~HasCol(df, c) /\ c # "Metal_Tier")
        \* lines 215-219: the frame X, Metal_Tier replaced by its code, last
        x_names == SelectSeq(s2.feature_cols, LAMBDA c : c # "Metal_Tier")
                       \o <<"Metal_Tier_Encoded">>
        codes == LabelEncoderTransform(s2.le_metal, labels)
        x_rows == Tup([i \in 1..Len(df.rows) |->
                      Tup([k \in 1..Len(x_names) |->
                          IF x_names[k] = "Metal_Tier_Encoded" THEN Num(codes[i])
                          ELSE df.rows[i][x_names[k]]])])
        \* lines 222-225
        imp == ImputerFit(x_names, x_rows)
        s3 == [s2 EXCEPT !.imputer = imp]
        s4 == [s3 EXCEPT !.scaler = ScalerFit(ImputerTransform(imp, x_rows))]
        y_present == HasCol(df, "Premium_Y")
        y == IF y_present THEN Tup([i \in 1..Len(df.rows) |-> df.rows[i].Premium_Y]) ELSE <<>>
    IN \* line 208: df['Metal_Tier'] raises KeyError
       IF ~HasCol(df, "Metal_Tier") THEN Raise(s1)
       \* line 213
       ELSE IF missing_cols # <<>> THEN Raise(s2)
       \* line 215: df[self.feature_cols] raises KeyError; line 218: X['Metal_Tier']
       ELSE IF ~HasCol(df, "Metal_Tier") \/ ~Contains(s2.feature_cols, "Metal_Tier")
            THEN Raise(s2)
       \* line 218
       ELSE IF LabelEncoderRaises(s2.le_metal, labels) THEN Raise(s2)
       ELSE IF TRUE
       THEN (IF ImputerFitRaises(x_names, x_rows) THEN Raise(s2)
             ELSE Outcome(s4, FALSE,
                          ScalerTransform(s4.scaler, ImputerTransform(imp, x_rows)),
                          y_present, y))
       ELSE IF ImputerTransformRaises(s2.imputer, x_names, x_rows) THEN Raise(s2)
       ELSE IF ScalerTransformRaises(s2.scaler, ImputerTransform(s2.imputer, x_rows))
            THEN Raise(s2)
       ELSE Outcome(s2, FALSE,
                    ScalerTransform(s2.scaler, ImputerTransform(s2.imputer, x_rows)),
                    y_present, y)

\* prepare_features, but a column of the list that the table lacks is
\* filled with zeros
prepare_features_zero_fill(self, df, training) ==
    LET health_cols == SelectSeq(HealthValues, LAMBDA col : HasCol(df, col))
        feature_cols == health_cols \o trend_names \o <<"Metal_Tier">>
        \* line 206
        s1 == IF training THEN [self EXCEPT !.feature_cols = feature_cols] ELSE self
        labels == Tup([i \in 1..Len(df.rows) |-> df.rows[i].Metal_Tier])
        \* line 208
        s2 == IF training THEN [s1 EXCEPT !.le_metal = LabelEncoderFit(labels)] ELSE s1
        missing_cols == <<>>
        \* lines 215-219: the frame X, Metal_Tier replaced by its code, last
        x_names == SelectSeq(s2.feature_cols, LAMBDA c : c # "Metal_Tier")
                       \o <<"Metal_Tier_Encoded">>
        codes == LabelEncoderTransform(s2.le_metal, labels)
        x_rows == Tup([i \in 1..Len(df.rows) |->
                      Tup([k \in 1..Len(x_names) |->
                          IF x_names[k] = "Metal_Tier_Encoded" THEN Num(codes[i])
                          ELSE IF HasCol(df, x_names[k]) THEN df.rows[i][x_names[k]]
                          ELSE Num(0)])])
        \* lines 222-225
        imp == ImputerFit(x_names, x_rows)
        s3 == [s2 EXCEPT !.imputer = imp]
        s4 == [s3 EXCEPT !.scaler = ScalerFit(ImputerTransform(imp, x_rows))]
        y_present == HasCol(df, "Premium_Y")
        y == IF y_present THEN Tup([i \in 1..Len(df.rows) |-> df.rows[i].Premium_Y]) ELSE <<>>
    IN \* line 208: df['Metal_Tier'] raises KeyError
       IF training /\ ~HasCol(df, "Metal_Tier") THEN Raise(s1)
       \* line 213
       ELSE IF missing_cols # <<>> THEN Raise(s2)
       \* line 215: df[self.feature_cols] raises KeyError; line 218: X['Metal_Tier']
       ELSE IF ~HasCol(df, "Metal_Tier") \/ ~Contains(s2.feature_cols, "Metal_Tier")
            THEN Raise(s2)
       \* line 218
       ELSE IF LabelEncoderRaises(s2.le_metal, labels) THEN Raise(s2)
       ELSE IF training
       THEN (IF ImputerFitRaises(x_names, x_rows) THEN Raise(s2)
             ELSE Outcome(s4, FALSE,
                          ScalerTransform(s4.scaler, ImputerTransform(imp, x_rows)),
                          y_present, y))
       ELSE IF ImputerTransformRaises(s2.imputer, x_names, x_rows) THEN Raise(s2)
       ELSE IF ScalerTransformRaises(s2.scaler, ImputerTransform(s2.imputer, x_rows))
            THEN Raise(s2)
       ELSE Outcome(s2, FALSE,
                    ScalerTransform(s2.scaler, ImputerTransform(s2.imputer, x_rows)),
                    y_present, y)

\* prepare_features, but the training call returns the imputed matrix
\* without scaling it
prepare_features_unscaled_fit(self, df, training) ==
    LET health_cols == SelectSeq(HealthValues, LAMBDA col : HasCol(df, col))
        feature_cols == health_cols \o trend_names \o <<"Metal_Tier">>
        \* line 206
        s1 == IF training THEN [self EXCEPT !.feature_cols = feature_cols] ELSE self
        labels == Tup([i \in 1..Len(df.rows) |-> df.rows[i].Metal_Tier])
        \* line 208
        s2 == IF training THEN [s1 EXCEPT !.le_metal = LabelEncoderFit(labels)] ELSE s1
        missing_cols == SelectSeq(s2.feature_cols,
                                  LAMBDA c : ~HasCol(df, c) /\ c # "Metal_Tier")
        \* lines 215-219: the frame X, Metal_Tier replaced by its code, last
        x_names == SelectSeq(s2.feature_cols, LAMBDA c : c # "Metal_Tier")
                       \o <<"Metal_Tier_Encoded">>
        codes == LabelEncoderTransform(s2.le_metal, labels)
        x_rows == Tup([i \in 1..Len(df.rows) |->
                      Tup([k \in 1..Len(x_names) |->
                          IF x_names[k] = "Metal_Tier_Encoded" THEN Num(codes[i])
                          ELSE df.rows[i][x_names[k]]])])
        \* lines 222-225
        imp == ImputerFit(x_names, x_rows)
        s3 == [s2 EXCEPT !.imputer = imp]
        s4 == [s3 EXCEPT !.scaler = ScalerFit(ImputerTransform(imp, x_rows))]
        y_present == HasCol(df, "Premium_Y")
        y == IF y_present THEN Tup([i \in 1..Len(df.rows) |-> df.rows[i].Premium_Y]) ELSE <<>>
    IN \* line 208: df['Metal_Tier'] raises KeyError
       IF training /\ ~HasCol(df, "Metal_Tier") THEN Raise(s1)
       \* line 213
       ELSE IF missing_cols # <<>> THEN Raise(s2)
       \* line 215: df[self.feature_cols] raises KeyError; line 218: X['Metal_Tier']
       ELSE IF ~HasCol(df, "Metal_Tier") \/ ~Contains(s2.feature_cols, "Metal_Tier")
            THEN Raise(s2)
       \* line 218
       ELSE IF LabelEncoderRaises(s2.le_metal, labels) THEN Raise(s2)
       ELSE IF training
       THEN (IF ImputerFitRaises(x_names, x_rows) THEN Raise(s2)
             ELSE Outcome(s4, FALSE,
                          ImputerTransform(imp, x_rows),
                          y_present, y))
       ELSE IF ImputerTransformRaises(s2.imputer, x_names, x_rows) THEN Raise(s2)
       ELSE IF ScalerTransformRaises(s2.scaler, ImputerTransform(s2.imputer, x_rows))
            THEN Raise(s2)
       ELSE Outcome(s2, FALSE,
                    ScalerTransform(s2.scaler, ImputerTransform(s2.imputer, x_rows)),
                    y_present, y)

prepare_features(self, df, training) ==
    LET health_cols == SelectSeq(HealthValues, LAMBDA col : HasCol(df, col))
        feature_cols == health_cols \o trend_names \o <<"Metal_Tier">>
        \* line 206
        s1 == IF training THEN [self EXCEPT !.feature_cols = feature_cols] ELSE self
        labels == Tup([i \in 1..Len(df.rows) |-> df.rows[i].Metal_Tier])
        \* line 208
        s2 == IF training THEN [s1 EXCEPT !.le_metal = LabelEncoderFit(labels)] ELSE s1
        missing_cols == SelectSeq(s2.feature_cols,
                                  LAMBDA c : ~HasCol(df, c) /\ c # "Metal_Tier")
        \* lines 215-219: the frame X, Metal_Tier replaced by its code, last
        x_names == SelectSeq(s2.feature_cols, LAMBDA c : c # "Metal_Tier")
                       \o <<"Metal_Tier_Encoded">>
        codes == LabelEncoderTransform(s2.le_metal, labels)
        x_rows == Tup([i \in 1..Len(df.rows) |->
                      Tup([k \in 1..Len(x_names) |->
                          IF x_names[k] = "Metal_Tier_Encoded" THEN Num(codes[i])
                          ELSE df.rows[i][x_names[k]]])])
        \* lines 222-225
        imp == ImputerFit(x_names, x_rows)
        s3 == [s2 EXCEPT !.imputer = imp]
        s4 == [s3 EXCEPT !.scaler = ScalerFit(ImputerTransform(imp, x_rows))]
        y_present == HasCol(df, "Premium_Y")
        y == IF y_present THEN Tup([i \in 1..Len(df.rows) |-> df.rows[i].Premium_Y]) ELSE <<>>
    IN \* line 208: df['Metal_Tier'] raises KeyError
       IF training /\ ~HasCol(df, "Metal_Tier") THEN Raise(s1)
       \* line 213
       ELSE IF missing_cols # <<>> THEN Raise(s2)
       \* line 215: df[self.feature_cols] raises KeyError; line 218: X['Metal_Tier']
       ELSE IF ~HasCol(df, "Metal_Tier") \/ ~Contains(s2.feature_cols, "Metal_Tier")
            THEN Raise(s2)
       \* line 218
       ELSE IF LabelEncoderRaises(s2.le_metal, labels) THEN Raise(s2)
       ELSE IF training
       THEN (IF ImputerFitRaises(x_names, x_rows) THEN Raise(s2)
             ELSE Outcome(s4, FALSE,
                          ScalerTransform(s4.scaler, ImputerTransform(imp, x_rows)),
                          y_present, y))
       ELSE IF ImputerTransformRaises(s2.imputer, x_names, x_rows) THEN Raise(s2)
       ELSE IF ScalerTransformRaises(s2.scaler, ImputerTransform(s2.imputer, x_rows))
            THEN Raise(s2)
       ELSE Outcome(s2, FALSE,
                    ScalerTransform(s2.scaler, ImputerTransform(s2.imputer, x_rows)),
                    y_present, y)

\* ------------------------------------------------------------------------
\* XGBRegressor.  The boosted trees are modelled by their additive leaf
\* values on the distinct feature rows of the training matrix: every round
\* adds learning_rate * sum(residuals) / (count + reg_lambda) to the leaf
\* of a row, starting from the mean target; a row not seen in training gets
\* the base score.  With early stopping the prediction uses the rounds up
\* to the best one on the evaluation set (rmse, first minimum).  Targets and
\* predictions are in units of 1 / (PredMul Q).
\* ------------------------------------------------------------------------
PredMul == 2 * 5
\* learning_rate = 0.05, in percent
learning_rate_pct == 5
reg_lambda == 1
\* the number of boosting rounds of the model (n_estimators, bounded)
NEstimators == 2

\* the target in prediction units
Target(y) == Tup([i \in 1..Len(y) |-> PredMul * Val(y[i])])

\* XGBRegressor.predict of a boosted state: base score plus leaf value
LeafPredict(base_score, leaves, X) ==
    Tup([i \in 1..Len(X) |->
        IF X[i] \in DOMAIN leaves THEN base_score + leaves[X[i]] ELSE base_score])

\* one boosting round on (X, t)
BoostRound(base_score, leaves, X, t) ==
    LET pred == LeafPredict(base_score, leaves, X)
    IN Fcn([x \in DOMAIN leaves |->
           LET members == {i \in 1..Len(X) : X[i] = x}
               res == SumSeq(Tup([i \in 1..Len(X) |->
                                 IF X[i] = x THEN t[i] - pred[i] ELSE 0]))
           IN leaves[x] + (learning_rate_pct * res)
                              \div (100 * (Cardinality(members) + reg_lambda))])

\* the leaf values after each of the rounds 1 .. rounds
RECURSIVE Boosted(_, _, _, _, _)
Boosted(base_score, leaves, X, t, rounds) ==
    IF rounds = 0 THEN <<>>
    ELSE LET before == Boosted(base_score, leaves, X, t, rounds - 1)
             last == IF before = <<>> THEN leaves ELSE before[Len(before)]
         IN Append(before, BoostRound(base_score, last, X, t))

\* the sum of squared errors of a prediction
SqErr(pred, t) == SumSeq(Tup([i \in 1..Len(t) |-> (t[i] - pred[i]) * (t[i] - pred[i])]))

\* XGBRegressor.fit raises without an evaluation set (early_stopping_rounds
\* is set), without targets, and on matrices of different widths
FitRaises(X, t_present, has_eval, X_eval, t_eval_present) ==
    \/ ~has_eval
    \/ ~t_present
    \/ ~t_eval_present
    \/ Len(X) = 0
    \/ Len(X_eval) = 0
    \/ Len(X_eval[1]) # Len(X[1])

XGBFit(X, t, X_eval, t_eval) ==
    LET base_score == SumSeq(t) \div Len(t)
        zero == Fcn([x \in Range(X) |-> 0])
        rounds == Boosted(base_score, zero, X, t, NEstimators)
        err == Tup([r \in 1..NEstimators |->
                       SqErr(LeafPredict(base_score, rounds[r], X_eval), t_eval)])
        best == CHOOSE r \in 1..NEstimators :
                    \A q \in 1..NEstimators : err[r] < err[q] \/ (err[r] = err[q] /\ r <= q)
    IN [fitted |-> TRUE,
        n_features |-> Len(X[1]),
        base_score |-> base_score,
        best_iteration |-> best,
        leaves |-> rounds[best]]

\* XGBRegressor.predict raises on an unfitted model and on a matrix of
\* another width than the training matrix
XGBPredictRaises(model, X) ==
    \/ ~model.fitted
    \/ \E i \in 1..Len(X) : Len(X[i]) # model.n_features

XGBPredict(model, X) == LeafPredict(model.base_score, model.leaves, X)

\* ------------------------------------------------------------------------
\* train, predict, evaluate
\* ------------------------------------------------------------------------
\* train, but the residual model is fitted on the targets themselves
train_residual_on_targets(self, X_train, y_train_present, y_train, has_val, X_val, y_val_present, y_val, interrupted) ==
    IF FitRaises(X_train, y_train_present, has_val, X_val, y_val_present)
    THEN [self |-> self, raised |-> TRUE]
    ELSE LET base == XGBFit(X_train, Target(y_train), X_val, Target(y_val))
             s1 == [self EXCEPT !.base_model = base]
             y_train_pred == XGBPredict(base, X_train)
             y_val_pred == XGBPredict(base, X_val)
             train_residuals == Tup([i \in 1..Len(y_train) |->
                                    Target(y_train)[i] - y_train_pred[i]])
             val_residuals == Tup([i \in 1..Len(y_val) |-> Target(y_val)[i] - y_val_pred[i]])
         IN IF interrupted THEN [self |-> s1, raised |-> TRUE]
            ELSE [self |-> [s1 EXCEPT !.residual_model =
                                XGBFit(X_train, Target(y_train), X_val, Target(y_val))],
                  raised |-> FALSE]

\* the outcome of train: the object after the call and whether it raised.
\* interrupted: an exception ends the call between the two fits
train(self, X_train, y_train_present, y_train, has_val, X_val, y_val_present, y_val, interrupted) ==
    IF FitRaises(X_train, y_train_present, has_val, X_val, y_val_present)
    THEN [self |-> self, raised |-> TRUE]
    ELSE LET base == XGBFit(X_train, Target(y_train), X_val, Target(y_val))
             s1 == [self EXCEPT !.base_model = base]
             y_train_pred == XGBPredict(base, X_train)
             y_val_pred == XGBPredict(base, X_val)
             train_residuals == Tup([i \in 1..Len(y_train) |->
                                    Target(y_train)[i] - y_train_pred[i]])
             val_residuals == Tup([i \in 1..Len(y_val) |-> Target(y_val)[i] - y_val_pred[i]])
         IN IF interrupted THEN [self |-> s1, raised |-> TRUE]
            ELSE [self |-> [s1 EXCEPT !.residual_model =
                                XGBFit(X_train, train_residuals, X_val, val_residuals)],
                  raised |-> FALSE]

\* predict_raises, but only the base model is asked
predict_raises_base_only(self, X) == XGBPredictRaises(self.base_model, X)

predict_raises(self, X) ==
    XGBPredictRaises(self.base_model, X) \/ XGBPredictRaises(self.residual_model, X)

\* predict, but the residual prediction is left out
predict_base_only(self, X) == XGBPredict(self.base_model, X)

predict(self, X) ==
    LET base_pred == XGBPredict(self.base_model, X)
        residual_pred == XGBPredict(self.residual_model, X)
    IN Tup([i \in 1..Len(X) |-> base_pred[i] + residual_pred[i]])

\* Metrics, but the mean relative error is not multiplied by 100
metrics_without_percent(t, p) ==
    LET n == Len(t)
        err == Tup([i \in 1..n |-> t[i] - p[i]])
        mean == SumSeq(t) \div n
        ss_res == SumSeq(Tup([i \in 1..n |-> err[i] * err[i]]))
        ss_tot == SumSeq(Tup([i \in 1..n |-> (t[i] - mean) * (t[i] - mean)]))
    IN [R2 |-> IF n < 2 THEN NaN
               ELSE IF ss_tot = 0 THEN (IF ss_res = 0 THEN <<100>> ELSE <<0>>)
               ELSE <<100 - (100 * ss_res) \div ss_tot>>,
        MAE |-> SumSeq(Tup([i \in 1..n |-> Abs(err[i])])) \div n,
        RMSE |-> ISqrt(ss_res \div n),
        MAPE |-> SumSeq(Tup([i \in 1..n |-> (Abs(err[i]) * 100) \div t[i]])) \div n]

\* r2_score, mean_absolute_error, sqrt(mean_squared_error) and the mean
\* absolute percentage error of predictions p for positive targets t:
\* MAE and RMSE in prediction units, R2 and MAPE in hundredths (the mean of
\* t rounded down to a prediction unit); R2 is NaN on fewer than two rows
Metrics(t, p) ==
    LET n == Len(t)
        err == Tup([i \in 1..n |-> t[i] - p[i]])
        mean == SumSeq(t) \div n
        ss_res == SumSeq(Tup([i \in 1..n |-> err[i] * err[i]]))
        ss_tot == SumSeq(Tup([i \in 1..n |-> (t[i] - mean) * (t[i] - mean)]))
    IN [R2 |-> IF n < 2 THEN NaN
               ELSE IF ss_tot = 0 THEN (IF ss_res = 0 THEN <<100>> ELSE <<0>>)
               ELSE <<100 - (100 * ss_res) \div ss_tot>>,
        MAE |-> SumSeq(Tup([i \in 1..n |-> Abs(err[i])])) \div n,
        RMSE |-> ISqrt(ss_res \div n),
        MAPE |-> SumSeq(Tup([i \in 1..n |-> (Abs(err[i]) * 10000) \div t[i]])) \div n]

\* evaluate raises when predict raises, without targets and on no rows
evaluate_raises(self, X, y_present) ==
    predict_raises(self, X) \/ ~y_present \/ Len(X) = 0

evaluate(self, X, y) == Metrics(Target(y), predict(self, X))

\* ------------------------------------------------------------------------
\* save / load: joblib writes the attributes of the object and reads them
\* back into a new object
\* ------------------------------------------------------------------------
Attributes ==
    <<"base_model", "residual_model", "imputer", "scaler", "le_metal", "feature_cols">>

\* Dump, but the feature list is written as __init__ sets it
DumpWithoutFeatureCols(self) ==
    Tup([i \in 1..Len(Attributes) |->
        <<Attributes[i],
          IF Attributes[i] = "feature_cols" THEN <<>> ELSE self[Attributes[i]]>>])

Dump(self) == Tup([i \in 1..Len(Attributes) |-> <<Attributes[i], self[Attributes[i]]>>])

Undump(blob) ==
    Fcn([a \in {blob[i][1] : i \in 1..Len(blob)} |->
        blob[CHOOSE i \in 1..Len(blob) : blob[i][1] = a][2]])

\* ------------------------------------------------------------------------
\* Inputs of main(): the two raw tables
\* ------------------------------------------------------------------------
Regions == {"Alabama", "Alaska"}
\* 3 is not a FIPS state code
StateCodes == {1, 2, 3}
PremiumLevels == {100, 110, 125}

RegionRank(r) == IF r = "Alabama" THEN 1 ELSE 2

\* the keys of S in increasing order of rank
RECURSIVE SortBy(_, _)
SortBy(S, rank) ==
    IF S = {} THEN <<>>
    ELSE LET m == CHOOSE x \in S : \A y \in S : rank[x] <= rank[y]
         IN <<m>> \o SortBy(S \ {m}, rank)

kff_columns == <<"Location", "Year">> \o value_vars

\* a wide row: the four premiums of a (region, year) at a price level
KffRow(loc, year, level) ==
    Fcn([c \in Range(kff_columns) |->
        CASE c = "Location" -> loc
          [] c = "Year" -> year
          [] c = "Average Lowest-Cost Bronze Premium" -> Num(level)
          [] c = "Average Lowest-Cost Silver Premium" -> Num(level + 20)
          [] c = "Average Benchmark Premium" -> Num(level + 30)
          [] c = "Average Lowest-Cost Gold Premium" -> Num(level + 50)])

MkKff(S, lv) ==
    LET keys == SortBy(S, Fcn([k \in S |-> RegionRank(k[1]) * 10000 + k[2]]))
    IN Table(kff_columns,
             Tup([i \in 1..Len(keys) |-> KffRow(keys[i][1], keys[i][2], lv[keys[i]])]))

\* the (region, year) keys of the wide rows: every year of the first region,
\* the last two years of the second
KffKeys == ({"Alabama"} \X Years) \cup ({"Alaska"} \X {LastYear - 1, LastYear})

\* wide premium tables with one row per (region, year), and two tables
\* without one of their columns
KffTables ==
    UNION {{MkKff(S, lv) : lv \in [S -> PremiumLevels]} :
           S \in {T \in SUBSET KffKeys : Cardinality(T) <= MaxKffRows}}
    \cup {DropCol(MkKff({<<"Alabama", LastYear>>}, Fcn([k \in {<<"Alabama", LastYear>>} |-> 100])), c) :
              c \in {"Year", "Average Lowest-Cost Gold Premium"}}

cdc_columns == <<"_STATE", "IYEAR", "mean_BMI_w">>

CdcRow(code, year) ==
    Fcn([c \in Range(cdc_columns) |->
        CASE c = "_STATE" -> code
          [] c = "IYEAR" -> year
          [] c = "mean_BMI_w" -> Num(25 + code)])

MkCdc(S) ==
    LET keys == SortBy(S, Fcn([k \in S |-> k[1] * 10000 + k[2]]))
    IN Table(cdc_columns, Tup([i \in 1..Len(keys) |-> CdcRow(keys[i][1], keys[i][2])]))

\* the (state code, year) keys of the survey rows: every year of code 1, the
\* last year of the other codes
CdcKeys == ({1} \X Years) \cup ((StateCodes \ {1}) \X {LastYear})

\* survey tables with one row per (state code, year)
CdcTables ==
    {MkCdc(S) : S \in {T \in SUBSET CdcKeys : Cardinality(T) <= MaxCdcRows}}

\* ------------------------------------------------------------------------
\* State
\* ------------------------------------------------------------------------
\* ------------------------------------------------------------------------
\* Inputs of the pipeline operations: trend-augmented tables
\* ------------------------------------------------------------------------
df_columns ==
    <<"Location", "CDC_Year", "bmi_avg", "KFF_Year", "Premium_Y", "Metal_Tier">>
        \o trend_names

\* a trend-augmented row with the trend fields of get_trends
DfRow(year, tier, bmi, premium, lag1, lag2) ==
    LET trend1 == IF ~IsNa(lag1) /\ ~IsNa(lag2) THEN <<Val(lag1) - Val(lag2)>> ELSE NaN
    IN Fcn([c \in Range(df_columns) |->
           CASE c = "Location" -> "Alabama"
             [] c = "CDC_Year" -> year
             [] c = "KFF_Year" -> year
             [] c = "bmi_avg" -> bmi
             [] c = "Premium_Y" -> premium
             [] c = "Metal_Tier" -> tier
             [] c = "premium_lag1" -> lag1
             [] c = "premium_lag2" -> lag2
             [] c = "trend_1y" -> trend1
             [] c = "trend_2y_avg" -> IF IsNa(trend1) THEN NaN ELSE <<Val(trend1) \div 2>>])

\* the columns of t without those of drop
WithoutCols(t, drop) ==
    Table(SelectSeq(t.columns, LAMBDA c : c \notin drop),
          Tup([i \in 1..Len(t.rows) |-> Fcn([c \in (DOMAIN t.rows[i]) \ drop |-> t.rows[i][c]])]))

DfTrain ==
    Table(df_columns,
          <<DfRow(2021, "Bronze", Num(26), Num(110), Num(100), NaN),
            DfRow(2022, "Bronze", NaN, Num(125), Num(110), Num(100)),
            DfRow(2022, "Silver", Num(28), Num(145), Num(130), Num(120))>>)

DfVal ==
    Table(df_columns,
          <<DfRow(2023, "Silver", Num(27), Num(150), Num(145), Num(130)),
            DfRow(2023, "Bronze", Num(27), Num(130), Num(125), Num(110))>>)

\* a table with a tier that the other tables do not have
DfGold ==
    Table(df_columns,
          <<DfRow(2022, "Gold", Num(28), Num(175), Num(160), NaN),
            DfRow(2022, "Bronze", Num(28), Num(125), Num(110), Num(100))>>)

\* a table to score: no indicator column and no premium
DfBare == WithoutCols(DfVal, {"bmi_avg", "Premium_Y"})

\* a merged table that did not go through generate_trend_features
DfNoTrend == WithoutCols(DfTrain, Range(trend_names))

DFs == <<DfTrain, DfVal, DfGold, DfBare, DfNoTrend>>

\* a matrix that does not come from prepare_features
ProbeX == << <<0, 0>> >>

\* ------------------------------------------------------------------------
\* State
\* ------------------------------------------------------------------------
\* the argument of a function applied on its own, [fn |-> "none"] otherwise
VARIABLE input
\* the pipeline objects by name: "pipeline" is built by the constructor,
\* "loaded" is returned by load
VARIABLE objs
\* the file written by save, <<>> before
VARIABLE file
\* the last call: operation, object, arguments, whether it raised, result
VARIABLE ret
\* the number of calls made so far
VARIABLE calls
\* how the last call relates to the call before it: "repeat" (same
\* operation, object and arguments), "after_fit" (prepare_features with
\* training=False right after a prepare_features with training=True that
\* returned, same object and table) or "other"
VARIABLE echo
\* main(): the step to execute next
VARIABLE pc
\* main(): the loaded raw tables
VARIABLE kff_df
VARIABLE cdc_df
\* main(): the results of the stages
VARIABLE kff_long
VARIABLE cdc_features
VARIABLE merged_df
VARIABLE merged_df_trends
\* main(): the partitions train_df, val_df, test_df (lines 322-324)
VARIABLE frames
\* main(): what prepare_features returned for the partitions (lines 329-331)
VARIABLE xy

\* the web layer (Part4/app.py): the module global _db_engine, 0 for None,
\* else the identity of an engine
VARIABLE _db_engine
\* db_config.txt: "absent", "incomplete" (a key is missing) or "complete"
VARIABLE config
\* whether create_engine finds its driver
VARIABLE driver_ok
\* the number of engines create_engine has returned; they are 1 .. created
VARIABLE created
\* the engines, other than None, that calls of get_db_engine have returned
VARIABLE returned
\* the database: whether connecting and querying succeeds, and the Age
\* values of the price table, in the order of the query
VARIABLE db
\* cache_age_options.json: whether it exists and the list it holds
VARIABLE cache_file
\* the threads of the process: the step to execute next, the request being
\* served, the local engine variable and the result of the last request
VARIABLE threads

webVars == <<_db_engine, config, driver_ok, created, returned, db, cache_file, threads>>

vars == <<input, objs, file, ret, calls, echo, pc, kff_df, cdc_df, kff_long, cdc_features, merged_df,
          merged_df_trends, frames, xy, webVars>>

mainVars == <<input, pc, kff_df, cdc_df, kff_long, cdc_features, merged_df, merged_df_trends,
              frames, xy, webVars>>

\* the pipeline is not part of the web process and the web process is not
\* part of a pipeline run
pipelineVars == <<input, objs, file, ret, echo, kff_df, cdc_df, kff_long, cdc_features, merged_df,
                  merged_df_trends, frames, xy>>

\* no web process
NoWeb ==
    /\ _db_engine = 0
    /\ config = "absent"
    /\ driver_ok = FALSE
    /\ created = 0
    /\ returned = {}
    /\ db = [up |-> FALSE, ages |-> <<>>]
    /\ cache_file = [exists |-> FALSE, data |-> <<>>]
    /\ threads = <<>>

NoInput == [fn |-> "none"]

NoFrames == [train_df |-> EmptyTable, val_df |-> EmptyTable, test_df |-> EmptyTable]

NoXY == [train |-> NoResult, val |-> NoResult, test |-> NoResult]

NoCall == [op |-> "none", obj |-> "none", args |-> <<>>, raised |-> FALSE, value |-> <<>>]

Call(op, obj, args, raised, value) ==
    [op |-> op, obj |-> obj, args |-> args, raised |-> raised, value |-> value]

\* ------------------------------------------------------------------------
\* main(), lines 308-316
\* ------------------------------------------------------------------------
InitMain ==
    /\ input = NoInput
    /\ objs = Fcn([o \in {"pipeline"} |-> NewPipeline])
    /\ file = <<>>
    /\ ret = NoCall
    /\ calls = 0
    /\ echo = "other"
    /\ pc = "preprocess_kff"
    /\ kff_df \in KffTables
    /\ cdc_df \in CdcTables
    /\ kff_long = EmptyTable
    /\ cdc_features = EmptyTable
    /\ merged_df = EmptyTable
    /\ merged_df_trends = EmptyTable
    /\ frames = NoFrames
    /\ xy = NoXY
    /\ NoWeb

MainPreprocessKff ==
    /\ pc = "preprocess_kff"
    /\ ~preprocess_kff_raises(kff_df)
    /\ kff_long' = preprocess_kff(kff_df)
    /\ pc' = "preprocess_cdc"
    /\ UNCHANGED <<webVars, frames, xy, input, objs, file, ret, calls, echo, kff_df, cdc_df, cdc_features, merged_df, merged_df_trends>>

\* an exception leaves main()
MainPreprocessKffRaises ==
    /\ pc = "preprocess_kff"
    /\ preprocess_kff_raises(kff_df)
    /\ pc' = "raised"
    /\ UNCHANGED <<webVars, frames, xy, input, objs, file, ret, calls, echo, kff_df, cdc_df, kff_long, cdc_features, merged_df, merged_df_trends>>

MainPreprocessCdc ==
    /\ pc = "preprocess_cdc"
    /\ cdc_df' = preprocess_cdc_input(cdc_df)
    /\ cdc_features' = preprocess_cdc(cdc_df)
    /\ pc' = "merge_data"
    /\ UNCHANGED <<webVars, frames, xy, input, objs, file, ret, calls, echo, kff_df, kff_long, merged_df, merged_df_trends>>

MainMergeData ==
    /\ pc = "merge_data"
    /\ merged_df' = merge_data(kff_long, cdc_features)
    /\ pc' = "generate_trend_features"
    /\ UNCHANGED <<webVars, frames, xy, input, objs, file, ret, calls, echo, kff_df, cdc_df, kff_long, cdc_features, merged_df_trends>>

MainGenerateTrendFeatures ==
    /\ pc = "generate_trend_features"
    /\ ~generate_trend_features_raises(merged_df)
    /\ merged_df_trends' = generate_trend_features(merged_df)
    /\ pc' = "split"
    /\ UNCHANGED <<webVars, frames, xy, input, objs, file, ret, calls, echo, kff_df, cdc_df, kff_long, cdc_features, merged_df>>

\* an exception leaves main()
MainGenerateTrendFeaturesRaises ==
    /\ pc = "generate_trend_features"
    /\ generate_trend_features_raises(merged_df)
    /\ pc' = "raised"
    /\ UNCHANGED <<webVars, frames, xy, input, objs, file, ret, calls, echo, kff_df, cdc_df, kff_long, cdc_features, merged_df, merged_df_trends>>

NextMain ==
    \/ MainPreprocessKff
    \/ MainPreprocessKffRaises
    \/ MainPreprocessCdc
    \/ MainMergeData
    \/ MainGenerateTrendFeatures
    \/ MainGenerateTrendFeaturesRaises

SpecMain == InitMain /\ [][NextMain]_vars

\* ------------------------------------------------------------------------
\* main(), lines 320-343: split, prepare, train, evaluate, save
\* ------------------------------------------------------------------------
TrainYears == {2020, 2021, 2022}
ValYears == {2023}
TestYear == 2024

\* merged_df_trends[merged_df_trends['KFF_Year'].isin(years)]
RowsOfYears(t, years) == Table(t.columns, SelectSeq(t.rows, LAMBDA r : r.KFF_Year \in years))

\* the trend features of a table, of no rows when the table has none
TrendsOf(t) == IF generate_trend_features_raises(t) THEN t ELSE generate_trend_features(t)

\* the split, but the merged table is partitioned first and the trend
\* features are computed on each partition
MainSplitThenTrends ==
    /\ pc = "split"
    /\ frames' = [train_df |-> TrendsOf(RowsOfYears(merged_df, TrainYears)),
                  val_df |-> TrendsOf(RowsOfYears(merged_df, ValYears)),
                  test_df |-> TrendsOf(RowsOfYears(merged_df, {TestYear}))]
    /\ pc' = "prepare_train"
    /\ UNCHANGED <<webVars, xy, input, objs, file, ret, calls, echo, kff_df, cdc_df, kff_long,
                   cdc_features, merged_df, merged_df_trends>>

MainSplit ==
    /\ pc = "split"
    /\ frames' = [train_df |-> RowsOfYears(merged_df_trends, TrainYears),
                  val_df |-> RowsOfYears(merged_df_trends, ValYears),
                  test_df |-> RowsOfYears(merged_df_trends, {TestYear})]
    /\ pc' = "prepare_train"
    /\ UNCHANGED <<webVars, xy, input, objs, file, ret, calls, echo, kff_df, cdc_df, kff_long,
                   cdc_features, merged_df, merged_df_trends>>

\* a call of prepare_features by main(): the object after the call, the
\* result kept under name, and the next step (an exception leaves main())
MainPrepare(df, training, name, next) ==
    LET out == prepare_features(objs["pipeline"], df, training)
    IN /\ objs' = [objs EXCEPT !["pipeline"] = out.self]
       /\ xy' = IF out.raised THEN xy
                ELSE [xy EXCEPT ![name] = [X |-> out.X, y_present |-> out.y_present,
                                           y |-> out.y]]
       /\ pc' = IF out.raised THEN "raised" ELSE next
       /\ UNCHANGED <<webVars, frames, input, file, ret, calls, echo, kff_df, cdc_df, kff_long,
                      cdc_features, merged_df, merged_df_trends>>

\* prepare_features on the validation partition with training=True
MainPrepareValFits ==
    /\ pc = "prepare_val"
    /\ MainPrepare(frames.val_df, TRUE, "val", "prepare_test")

MainPrepareTrain ==
    /\ pc = "prepare_train"
    /\ MainPrepare(frames.train_df, TRUE, "train", "prepare_val")

MainPrepareVal ==
    /\ pc = "prepare_val"
    /\ MainPrepare(frames.val_df, FALSE, "val", "prepare_test")

MainPrepareTest ==
    /\ pc = "prepare_test"
    /\ MainPrepare(frames.test_df, FALSE, "test", "train")

MainTrain ==
    /\ pc = "train"
    /\ LET out == train(objs["pipeline"], xy.train.X, xy.train.y_present, xy.train.y,
                        TRUE, xy.val.X, xy.val.y_present, xy.val.y, FALSE)
       IN /\ objs' = [objs EXCEPT !["pipeline"] = out.self]
          /\ pc' = IF out.raised THEN "raised" ELSE "evaluate_train"
    /\ UNCHANGED <<webVars, frames, xy, input, file, ret, calls, echo, kff_df, cdc_df, kff_long,
                   cdc_features, merged_df, merged_df_trends>>

\* a call of evaluate by main(): the metrics are printed and dropped
MainEvaluate(name, next) ==
    /\ pc' = IF evaluate_raises(objs["pipeline"], xy[name].X, xy[name].y_present)
             THEN "raised" ELSE next
    /\ UNCHANGED <<webVars, frames, xy, input, objs, file, ret, calls, echo, kff_df, cdc_df, kff_long,
                   cdc_features, merged_df, merged_df_trends>>

MainEvaluateTrain == pc = "evaluate_train" /\ MainEvaluate("train", "evaluate_val")

MainEvaluateVal == pc = "evaluate_val" /\ MainEvaluate("val", "evaluate_test")

MainEvaluateTest == pc = "evaluate_test" /\ MainEvaluate("test", "save")

MainSave ==
    /\ pc = "save"
    /\ file' = Dump(objs["pipeline"])
    /\ pc' = "done"
    /\ UNCHANGED <<webVars, frames, xy, input, objs, ret, calls, echo, kff_df, cdc_df, kff_long,
                   cdc_features, merged_df, merged_df_trends>>

\* the raw tables of the whole runs: the two years before the training years up
\* to the test year; a premium row without region; state codes 11 (District
\* of Columbia) and 3 (no state)
RunYears == (FirstYear - 2) .. TestYear

RunKffKeys == ({"Alabama"} \X RunYears) \cup {<<NaStr, TestYear>>}

\* the premium level of a year
RunLevel(year) == 100 + 10 * (year - FirstYear)

RunKffTables ==
    {MkKff(S, Fcn([k \in S |-> RunLevel(k[2])])) :
        S \in {T \in SUBSET RunKffKeys : Cardinality(T) <= MaxKffRows}}
    \cup {DropCol(MkKff({<<"Alabama", TestYear>>},
                        Fcn([k \in {<<"Alabama", TestYear>>} |-> RunLevel(k[2])])),
                  "Average Lowest-Cost Gold Premium")}

RunCdcKeys == ({1} \X RunYears) \cup ({3, 11} \X {TestYear})

RunCdcTables ==
    {MkCdc(S) : S \in {T \in SUBSET RunCdcKeys : Cardinality(T) <= MaxCdcRows}}

InitRun ==
    /\ input = NoInput
    /\ objs = Fcn([o \in {"pipeline"} |-> NewPipeline])
    /\ file = <<>>
    /\ ret = NoCall
    /\ calls = 0
    /\ echo = "other"
    /\ pc = "preprocess_kff"
    /\ kff_df \in RunKffTables
    /\ cdc_df \in RunCdcTables
    /\ kff_long = EmptyTable
    /\ cdc_features = EmptyTable
    /\ merged_df = EmptyTable
    /\ merged_df_trends = EmptyTable
    /\ frames = NoFrames
    /\ xy = NoXY
    /\ NoWeb

NextRun ==
    \/ MainPreprocessKff
    \/ MainPreprocessKffRaises
    \/ MainPreprocessCdc
    \/ MainMergeData
    \/ MainGenerateTrendFeatures
    \/ MainGenerateTrendFeaturesRaises
    \/ MainSplit
    \/ MainPrepareTrain
    \/ MainPrepareVal
    \/ MainPrepareTest
    \/ MainTrain
    \/ MainEvaluateTrain
    \/ MainEvaluateVal
    \/ MainEvaluateTest
    \/ MainSave

SpecRun == InitRun /\ [][NextRun]_vars

\* ------------------------------------------------------------------------
\* The operations of a pipeline object, called in any order
\* ------------------------------------------------------------------------
Init ==
    /\ input = NoInput
    /\ objs = Fcn([o \in {"pipeline"} |-> NewPipeline])
    /\ file = <<>>
    /\ ret = NoCall
    /\ calls = 0
    /\ echo = "other"
    /\ pc = "calls"
    /\ kff_df = EmptyTable
    /\ cdc_df = EmptyTable
    /\ kff_long = EmptyTable
    /\ cdc_features = EmptyTable
    /\ merged_df = EmptyTable
    /\ merged_df_trends = EmptyTable
    /\ frames = NoFrames
    /\ xy = NoXY
    /\ NoWeb

\* the arguments of the calls: tables to fit on and to transform, (training,
\* validation) pairs with 0 for no validation data, tables to score
PrepareArgs == ({1, 2, 5} \X {TRUE}) \cup ((1..Len(DFs)) \X {FALSE})
TrainArgs == {<<1, 0>>, <<1, 2>>, <<2, 1>>, <<1, 4>>}
ScoreArgs == {1, 2, 4}

\* the (X, y) that prepare_features(training=False) returns now for table d
Prepared(o, d) == prepare_features(objs[o], DFs[d], FALSE)

\* df with every tier label the encoder has not seen replaced by the first
\* class of the encoder
AsFittedTier(le, df) ==
    Table(df.columns,
          Tup([i \in 1..Len(df.rows) |->
              Fcn([c \in DOMAIN df.rows[i] |->
                  IF c = "Metal_Tier" /\ le.classes # <<>> /\ ~Contains(le.classes, df.rows[i][c])
                  THEN le.classes[1]
                  ELSE df.rows[i][c]])]))

\* PrepareFeatures, but with training=False a label the encoder has not seen
\* is encoded as one of the classes it has
PrepareFeaturesGuessTier(o, d, training) ==
    LET out == prepare_features(objs[o],
                                IF training THEN DFs[d]
                                ELSE AsFittedTier(objs[o].le_metal, DFs[d]),
                                training)
    IN /\ objs' = [objs EXCEPT ![o] = out.self]
       /\ ret' = Call("prepare_features", o, <<d, training>>, out.raised,
                      [X |-> out.X, y_present |-> out.y_present, y |-> out.y])
       /\ UNCHANGED <<file, mainVars>>

PrepareFeatures(o, d, training) ==
    LET out == prepare_features(objs[o], DFs[d], training)
    IN /\ objs' = [objs EXCEPT ![o] = out.self]
       /\ ret' = Call("prepare_features", o, <<d, training>>, out.raised,
                      [X |-> out.X, y_present |-> out.y_present, y |-> out.y])
       /\ UNCHANGED <<file, mainVars>>

\* train on the prepared table d, with the prepared table v for validation
\* (v = 0: no validation data)
Train(o, d, v, interrupted) ==
    /\ ~Prepared(o, d).raised
    /\ v # 0 => ~Prepared(o, v).raised
    /\ LET tr == Prepared(o, d)
           va == IF v = 0 THEN NoResult ELSE Prepared(o, v)
           out == train(objs[o], tr.X, tr.y_present, tr.y,
                        v # 0, va.X, va.y_present, va.y, interrupted)
       IN /\ objs' = [objs EXCEPT ![o] = out.self]
          /\ ret' = Call("train", o, <<d, v>>, out.raised, <<>>)
    /\ UNCHANGED <<file, mainVars>>

\* the matrices handed to predict: the probe and the prepared tables
PredictInputs(o) ==
    {ProbeX} \cup {Prepared(o, d).X : d \in {e \in ScoreArgs : ~Prepared(o, e).raised}}

\* Predict, but the call drops the residual model of the object
PredictDropsResidual(o, X) ==
    /\ ret' = IF predict_raises(objs[o], X) THEN Call("predict", o, <<X>>, TRUE, <<>>)
              ELSE Call("predict", o, <<X>>, FALSE, predict(objs[o], X))
    /\ objs' = [objs EXCEPT ![o].residual_model = NewXGBRegressor]
    /\ UNCHANGED <<file, mainVars>>

Predict(o, X) ==
    /\ ret' = IF predict_raises(objs[o], X) THEN Call("predict", o, <<X>>, TRUE, <<>>)
              ELSE Call("predict", o, <<X>>, FALSE, predict(objs[o], X))
    /\ UNCHANGED <<objs, file, mainVars>>

Evaluate(o, d) ==
    /\ ~Prepared(o, d).raised
    /\ LET in == Prepared(o, d)
       IN ret' = IF evaluate_raises(objs[o], in.X, in.y_present)
                 THEN Call("evaluate", o, <<d>>, TRUE, <<>>)
                 ELSE Call("evaluate", o, <<d>>, FALSE, evaluate(objs[o], in.X, in.y))
    /\ UNCHANGED <<objs, file, mainVars>>

Save(o) ==
    /\ file' = Dump(objs[o])
    /\ ret' = Call("save", o, <<>>, FALSE, <<>>)
    /\ UNCHANGED <<objs, mainVars>>

\* one load in a run
Load ==
    /\ file # <<>>
    /\ "loaded" \notin DOMAIN objs
    /\ objs' = Fcn([o \in (DOMAIN objs) \cup {"loaded"} |->
                   IF o = "loaded" THEN Undump(file) ELSE objs[o]])
    /\ ret' = Call("load", "loaded", <<>>, FALSE, <<>>)
    /\ UNCHANGED <<file, mainVars>>

Called == calls < MaxCalls /\ calls' = calls + 1

Echo ==
    echo' = IF ret'.op = ret.op /\ ret'.obj = ret.obj /\ ret'.args = ret.args
            THEN "repeat"
            ELSE IF /\ ret.op = "prepare_features" /\ ret'.op = "prepare_features"
                    /\ ret'.obj = ret.obj /\ ~ret.raised
                    /\ ret.args[2] /\ ~ret'.args[2] /\ ret'.args[1] = ret.args[1]
            THEN "after_fit"
            ELSE "other"

Next ==
    \/ \E o \in DOMAIN objs, a \in PrepareArgs :
           Called /\ PrepareFeatures(o, a[1], a[2]) /\ Echo
    \/ \E o \in DOMAIN objs, a \in TrainArgs, interrupted \in BOOLEAN :
           Called /\ Train(o, a[1], a[2], interrupted) /\ Echo
    \/ \E o \in DOMAIN objs : Called /\ (\E X \in PredictInputs(o) : Predict(o, X)) /\ Echo
    \/ \E o \in DOMAIN objs, d \in ScoreArgs : Called /\ Evaluate(o, d) /\ Echo
    \/ \E o \in DOMAIN objs : Called /\ Save(o) /\ Echo
    \/ Called /\ Load /\ Echo

Spec == Init /\ [][Next]_vars

\* ========================================================================
\* Properties
\* ========================================================================

\* the non-NaN premiums recorded for (loc, tier, year), by the name of the
\* year column of the table
PremiumsOf(rows, yearCol, loc, tier, year) ==
    {rows[i].Premium_Y : i \in {k \in 1..Len(rows) :
        /\ rows[k].Location = loc /\ rows[k].Metal_Tier = tier
        /\ rows[k][yearCol] = year /\ ~IsNa(rows[k].Premium_Y)}}

TrendsDone == pc = "split"

\* C1: every row (R, T, Y) of the trend-augmented merged table has lag1
\* (resp. lag2) equal to a premium of (R, T, Y-1) (resp. (R, T, Y-2)) of the
\* full long premium table whenever the long table has such a record, also
\* when that year has no indicator row and is absent from the merged table.
C1_LagsFromFullLongTable ==
    TrendsDone =>
        \A i \in 1..Len(merged_df_trends.rows) :
            LET r == merged_df_trends.rows[i]
                p1 == PremiumsOf(kff_long.rows, "Year", r.Location, r.Metal_Tier, r.KFF_Year - 1)
                p2 == PremiumsOf(kff_long.rows, "Year", r.Location, r.Metal_Tier, r.KFF_Year - 2)
            IN /\ p1 # {} => r.premium_lag1 \in p1
               /\ p2 # {} => r.premium_lag2 \in p2

\* C2: with S the year -> premium series of (R, T) in the table given to
\* generate_trend_features, a row (R, T, Y) gets lag1 = S[Y-1] and
\* lag2 = S[Y-2] of exactly that year, NaN when the year is absent,
\* trend_1y = lag1 - lag2 when both are present and NaN otherwise,
\* trend_2y_avg = trend_1y / 2 when trend_1y is present and NaN otherwise;
\* the series {2020: 100, 2021: 110, 2022: 125} gives (110, 100, 10, 5) on
\* its 2022 row and four NaN on its 2020 row.
C2_ExactYearLags ==
    TrendsDone =>
        \A i \in 1..Len(merged_df_trends.rows) :
            LET r == merged_df_trends.rows[i]
                S(y) == PremiumsOf(merged_df.rows, "KFF_Year", r.Location, r.Metal_Tier, y)
                Y == r.KFF_Year
            IN /\ IF S(Y - 1) = {} THEN IsNa(r.premium_lag1)
                  ELSE r.premium_lag1 \in S(Y - 1)
               /\ IF S(Y - 2) = {} THEN IsNa(r.premium_lag2)
                  ELSE r.premium_lag2 \in S(Y - 2)
               /\ IF IsNa(r.premium_lag1) \/ IsNa(r.premium_lag2)
                  THEN IsNa(r.trend_1y)
                  ELSE r.trend_1y = <<Val(r.premium_lag1) - Val(r.premium_lag2)>>
               /\ IF IsNa(r.trend_1y) THEN IsNa(r.trend_2y_avg)
                  ELSE /\ ~IsNa(r.trend_2y_avg)
                       /\ 2 * Val(r.trend_2y_avg) = Val(r.trend_1y)
               /\ (/\ S(2020) = {Num(100)} /\ S(2021) = {Num(110)} /\ S(2022) = {Num(125)}
                   /\ S(2019) = {} /\ S(2018) = {})
                  => /\ Y = 2022 =>
                         /\ r.premium_lag1 = Num(110) /\ r.premium_lag2 = Num(100)
                         /\ r.trend_1y = Num(10) /\ r.trend_2y_avg = Num(5)
                     /\ Y = 2020 =>
                         /\ IsNa(r.premium_lag1) /\ IsNa(r.premium_lag2)
                         /\ IsNa(r.trend_1y) /\ IsNa(r.trend_2y_avg)

\* the example series of C2 went through generate_trend_features: its 2022
\* row has (110, 100, 10, 5), its 2020 row has four NaN, and another row
\* has a lag2 two years back across a year without premium
C2_Witness ==
    /\ TrendsDone
    /\ \E i, j \in 1..Len(merged_df_trends.rows) :
          LET r == merged_df_trends.rows[i]
              f == merged_df_trends.rows[j]
          IN /\ r.Location = f.Location /\ r.Metal_Tier = f.Metal_Tier
             /\ r.KFF_Year = 2022 /\ f.KFF_Year = 2020
             /\ r.premium_lag1 = Num(110) /\ r.premium_lag2 = Num(100)
             /\ r.trend_1y = Num(10) /\ r.trend_2y_avg = Num(5)
             /\ IsNa(f.premium_lag1) /\ IsNa(f.trend_2y_avg)

\* ------------------------------------------------------------------------
\* Properties of the pipeline object (Spec)
\* ------------------------------------------------------------------------
Trained(o) == objs[o].base_model.fitted /\ objs[o].residual_model.fitted

Models(self) == <<self.base_model, self.residual_model>>

Transforms(self) == <<self.feature_cols, self.le_metal, self.imputer, self.scaler>>

\* C3: predict returns, for every row of X and in the order of the rows, the
\* base model's prediction for that row plus the residual model's
\* prediction for that row
C3_PredictIsBasePlusResidual ==
    (ret.op = "predict" /\ ~ret.raised) =>
        LET X == ret.args[1]
            self == objs[ret.obj]
        IN /\ Len(ret.value) = Len(X)
           /\ \A i \in 1..Len(X) :
                  ret.value[i] = XGBPredict(self.base_model, <<X[i]>>)[1]
                                 + XGBPredict(self.residual_model, <<X[i]>>)[1]

\* a prediction for several rows that differ, to which the residual model
\* contributes
C3_Witness ==
    /\ ret.op = "predict" /\ ~ret.raised
    /\ Len(ret.value) >= 2
    /\ ret.value[1] # ret.value[2]
    /\ XGBPredict(objs[ret.obj].residual_model, <<ret.args[1][1]>>)[1] # 0

\* C4, as the specification states it: once train has completed on an
\* object, no later operation, a second train call included, changes its
\* fitted base or residual model
C4_NoChangeOnceTrained ==
    [][\A o \in DOMAIN objs : Trained(o) => Models(objs'[o]) = Models(objs[o])]_vars

\* C4, amended: once train has completed on an object, train is the only
\* operation that changes its fitted base or residual model
C4_OnlyTrainRefits ==
    [][\A o \in DOMAIN objs :
           (Trained(o) /\ Models(objs'[o]) # Models(objs[o]))
               => (ret'.op = "train" /\ ret'.obj = o)]_vars

\* prepare_features(training=True) has returned on a trained object
C4_Witness ==
    /\ ret.op = "prepare_features" /\ ret.args[2] /\ ~ret.raised
    /\ Trained(ret.obj)

\* C5: predict or evaluate on an object whose base model or residual model
\* is not fitted (train never called, or ended between the two fits) raises
\* and returns nothing
C5_UnfittedRaises ==
    (/\ ret.op \in {"predict", "evaluate"}
     /\ ~Trained(ret.obj))
        => (ret.raised /\ ret.value = <<>>)

\* predict on an object whose train call ended between the two fits
C5_Witness ==
    /\ ret.op = "predict" /\ ret.raised
    /\ objs[ret.obj].base_model.fitted
    /\ ~objs[ret.obj].residual_model.fitted

\* C6, as the specification states it: after a prepare_features(training=
\* True) call has fitted them, no operation changes the feature-column list,
\* the tier encoder, the imputer or the scaler of the object
C6_WrittenOnce ==
    [][\A o \in DOMAIN objs :
           objs[o].scaler.fitted => Transforms(objs'[o]) = Transforms(objs[o])]_vars

\* C6, amended: prepare_features(training=True) is the only operation that
\* changes the feature-column list, the tier encoder, the imputer or the
\* scaler of an object
C6_OnlyTrainingPrepareWrites ==
    [][\A o \in DOMAIN objs :
           Transforms(objs'[o]) # Transforms(objs[o])
               => (ret'.op = "prepare_features" /\ ret'.obj = o /\ ret'.args[2])]_vars

\* prepare_features(training=False) has returned a matrix for a table other
\* than the one the transforms were fitted on
C6_Witness ==
    /\ ret.op = "prepare_features" /\ ~ret.args[2] /\ ~ret.raised
    /\ Len(ret.value.X) > 0
    /\ Transforms(objs[ret.obj]) # Transforms(prepare_features(NewPipeline,
                                                               DFs[ret.args[1]], TRUE).self)

\* C7: prepare_features(training=False) on a table that lacks a column of
\* the frozen feature list (other than Metal_Tier) raises and returns no
\* matrix
C7_MissingColumnRaises ==
    (/\ ret.op = "prepare_features" /\ ~ret.args[2]
     /\ \E k \in 1..Len(objs[ret.obj].feature_cols) :
            /\ objs[ret.obj].feature_cols[k] # "Metal_Tier"
            /\ ~HasCol(DFs[ret.args[1]], objs[ret.obj].feature_cols[k]))
        => (ret.raised /\ ret.value.X = <<>>)

\* the fitted object was given a table with rows that lacks bmi_avg
C7_Witness ==
    /\ ret.op = "prepare_features" /\ ~ret.args[2] /\ ret.raised
    /\ objs[ret.obj].scaler.fitted
    /\ Contains(objs[ret.obj].feature_cols, "bmi_avg")
    /\ ~HasCol(DFs[ret.args[1]], "bmi_avg")
    /\ HasCol(DFs[ret.args[1]], "Metal_Tier")
    /\ Len(DFs[ret.args[1]].rows) > 0

\* C8: prepare_features(df, training=False) right after a
\* prepare_features(df, training=True) that returned, on the same object and
\* the same table, returns the same matrix and the same target
C8_RefitPairAgrees ==
    [][(/\ ret.op = "prepare_features" /\ ret.args[2] /\ ~ret.raised
        /\ ret'.op = "prepare_features" /\ ~ret'.args[2]
        /\ ret'.obj = ret.obj /\ ret'.args[1] = ret.args[1])
           => (~ret'.raised /\ ret'.value = ret.value)]_vars

\* the second call of such a pair has returned a matrix with imputed cells
C8_Witness ==
    /\ echo = "after_fit" /\ ~ret.raised
    /\ Len(ret.value.X) >= 2 /\ ret.value.y_present
    /\ \E i \in 1..Len(DFs[ret.args[1]].rows) : IsNa(DFs[ret.args[1]].rows[i].bmi_avg)

C10_PredictIsPure ==
    [][/\ ret'.op \in {"predict", "evaluate"} => (objs' = objs /\ file' = file)
       /\ (/\ ret.op = "predict" /\ ret'.op = "predict"
           /\ ret'.obj = ret.obj /\ ret'.args = ret.args)
              => (ret'.raised = ret.raised /\ ret'.value = ret.value)]_vars

\* predict has returned twice in a row for the same several rows
C10_Witness ==
    /\ echo = "repeat" /\ ret.op = "predict" /\ ~ret.raised
    /\ Len(ret.value) >= 2
    /\ Trained(ret.obj)

\* ------------------------------------------------------------------------
\* Functions applied on their own to an argument drawn at the start
\* ------------------------------------------------------------------------
\* the number of pieces a text argument is put together from
MaxPieces == 3

TierPieces ==
    {StrBronze, StrSilver, StrBenchmark, StrGold, StrSpace,
     <<"B", "e", "n", "c", "h">>, <<"m", "a", "r", "k">>}

\* the texts put together from at most n pieces of P
Texts(P, n) == {FlattenSeq(ps) : ps \in UNION {[1..k -> P] : k \in 0..n}}

TierInputs == {[fn |-> "_extract_metal_tier", x |-> t] : t \in Texts(TierPieces, MaxPieces)}

ApplyExtractMetalTier ==
    /\ pc = "apply"
    /\ input.fn = "_extract_metal_tier"
    /\ ret' = Call("_extract_metal_tier", "pipeline", <<input.x>>, FALSE,
                   _extract_metal_tier(input.x))
    /\ pc' = "done"
    /\ UNCHANGED <<webVars, frames, xy, input, objs, file, calls, echo, kff_df, cdc_df, kff_long, cdc_features,
                   merged_df, merged_df_trends>>

\* C11, as the specification states it: for every text that contains
\* "Benchmark", _extract_metal_tier returns Silver, whatever else the text
\* contains
C11_BenchmarkIsSilver ==
    (ret.op = "_extract_metal_tier" /\ In(StrBenchmark, ret.args[1]))
        => ret.value = "Silver"

\* C11, amended: for every text that contains "Benchmark",
\* _extract_metal_tier returns Bronze if the text also contains "Bronze" and
\* Silver otherwise, never Unknown or Gold
C11_BenchmarkIsSilverUnlessBronze ==
    (ret.op = "_extract_metal_tier" /\ In(StrBenchmark, ret.args[1]))
        => ret.value = IF In(StrBronze, ret.args[1]) THEN "Bronze" ELSE "Silver"

\* a text with "Gold" and "Benchmark" and without "Silver" gave Silver
C11_Witness ==
    /\ ret.op = "_extract_metal_tier"
    /\ In(StrBenchmark, ret.args[1]) /\ In(StrGold, ret.args[1])
    /\ ~In(StrSilver, ret.args[1])
    /\ ret.value = "Silver"

\* ------------------------------------------------------------------------
\* Properties of the reshaped premium table
\* ------------------------------------------------------------------------
\* no two rows of the wide table have the same region and year
OneRowPerRegionYear(kff) ==
    \A i, j \in 1..Len(kff.rows) :
        (kff.rows[i].Location = kff.rows[j].Location /\ kff.rows[i].Year = kff.rows[j].Year)
            => i = j

\* C12: for a wide table with one row per (region, year), no two rows of the
\* long table returned by preprocess_kff have the same region, year and tier
C12_OneRowPerRegionYearTier ==
    (pc \notin {"preprocess_kff", "raised"} /\ OneRowPerRegionYear(kff_df)) =>
        \A i, j \in 1..Len(kff_long.rows) :
            (/\ kff_long.rows[i].Location = kff_long.rows[j].Location
             /\ kff_long.rows[i].Year = kff_long.rows[j].Year
             /\ kff_long.rows[i].Metal_Tier = kff_long.rows[j].Metal_Tier)
                => i = j

\* ------------------------------------------------------------------------
\* preprocess_kff applied to wide tables with text premiums and with
\* missing columns
\* ------------------------------------------------------------------------
\* premium texts: a prefix, an integer part, a fraction and a suffix
TextPrefixes ==
    {<<>>,
     <<"$">>,
     <<" ", "$">>,
     <<"x">>}
TextIntegers ==
    {<<"1", ",", "2", "3", "4">>,
     <<"1", "0", "0">>,
     <<>>,
     <<"1", ",", "0", ",", "0">>,
     <<"1", "2", "$", "5">>}
TextFractions ==
    {<<>>,
     <<".", "5", "0">>,
     <<".", "5">>,
     <<".">>,
     <<".", "2", "5">>,
     <<".", "5", ".", "5">>}
TextSuffixes ==
    {<<>>,
     <<"$">>,
     <<" ">>,
     <<",">>,
     <<"x">>}

CurrencyTexts ==
    {a \o b \o c \o d : a \in TextPrefixes, b \in TextIntegers, c \in TextFractions,
                        d \in TextSuffixes}

\* one wide row of the first year with the given premium cells
KffRowOf(bronze, silver, benchmark, gold) ==
    Fcn([c \in Range(kff_columns) |->
        CASE c = "Location" -> "Alabama"
          [] c = "Year" -> FirstYear
          [] c = "Average Lowest-Cost Bronze Premium" -> bronze
          [] c = "Average Lowest-Cost Silver Premium" -> silver
          [] c = "Average Benchmark Premium" -> benchmark
          [] c = "Average Lowest-Cost Gold Premium" -> gold])

\* the premiums of the other three columns: numbers, texts, or missing
OtherPremiums ==
    {<<Num(120), Num(130), Num(150)>>,
     <<Text(<<"$", "1", "2", "0">>), Text(<<"1", "3", "0", ".", "0", "0">>), Text(<<"$", "1", ",", "1", "5", "0">>)>>,
     <<NaN, NaN, NaN>>}

KffTextTables ==
    {Table(kff_columns, <<KffRowOf(b, o[1], o[2], o[3])>>) :
        b \in {Text(t) : t \in CurrencyTexts} \cup {NaN, Num(100)}, o \in OtherPremiums}

\* the wide tables without some of their columns, and the table without rows
KffPartTables ==
    {WithoutCols(Table(kff_columns, rows), drop) :
        rows \in {<<>>, <<KffRowOf(Num(100), Num(120), Num(130), Num(150))>>},
        drop \in SUBSET Range(kff_columns)}

KffInputs == {[fn |-> "preprocess_kff", kff |-> t] : t \in KffTextTables \cup KffPartTables}

ApplyPreprocessKff ==
    /\ pc = "apply"
    /\ input.fn = "preprocess_kff"
    /\ ret' = IF preprocess_kff_raises(input.kff)
              THEN Call("preprocess_kff", "pipeline", <<input.kff>>, TRUE, <<>>)
              ELSE Call("preprocess_kff", "pipeline", <<input.kff>>, FALSE,
                        preprocess_kff(input.kff))
    /\ pc' = "done"
    /\ UNCHANGED <<webVars, frames, xy, input, objs, file, calls, echo, kff_df, cdc_df, kff_long, cdc_features,
                   merged_df, merged_df_trends>>

\* the premium cell of the wide table that row i of the long table comes from
WideCell(kff, i) ==
    kff.rows[((i - 1) % Len(kff.rows)) + 1][value_vars[((i - 1) \div Len(kff.rows)) + 1]]

\* C13: in the table preprocess_kff returns, a premium that arrived as text
\* is the number left when every "$" and "," is removed from the text
\* ("$1,234.50" gives 1234.50), and a premium that arrived as a number is
\* that number
C13_CurrencyTextToNumber ==
    (ret.op = "preprocess_kff" /\ ~ret.raised) =>
        \A i \in 1..Len(ret.value.rows) :
            LET cell == WideCell(ret.args[1], i)
                out == ret.value.rows[i].Premium_Y
            IN /\ IsText(cell) => out = Float(RemoveCurrency(cell[2]))
               /\ (IsText(cell) /\ cell[2] = <<"$", "1", ",", "2", "3", "4", ".", "5", "0">>)
                      => out = <<(1234 * Q) + (Q \div 2)>>
               /\ ~IsText(cell) => out = cell

\* C14: preprocess_kff raises and returns no table when one of the four
\* premium columns is not in its input
C14_MissingPremiumColumnRaises ==
    (/\ ret.op = "preprocess_kff"
     /\ \E k \in 1..Len(value_vars) : ~HasCol(ret.args[1], value_vars[k]))
        => (ret.raised /\ ret.value = <<>>)

\* a table with rows, with its id columns and without the Gold column only
C14_Witness ==
    /\ ret.op = "preprocess_kff" /\ ret.raised
    /\ Len(ret.args[1].rows) > 0
    /\ \A c \in Range(kff_columns) :
           HasCol(ret.args[1], c) <=> c # "Average Lowest-Cost Gold Premium"

\* ------------------------------------------------------------------------
\* merge_data in main()
\* ------------------------------------------------------------------------
\* merge_data has just returned
Merged == pc = "generate_trend_features"

\* the indicator row and the premium row have the same region and year
\* (two missing regions compare equal in the join, as two names do)
SameKey(i, p) == i.Location = p.Location /\ i.CDC_Year = p.Year

\* m is the joined row of indicator row i and premium row p
IsJoinOf(m, i, p) ==
    /\ DOMAIN m = (DOMAIN i) \cup ((DOMAIN p) \ {"Year"}) \cup {"KFF_Year"}
    /\ \A c \in DOMAIN i : m[c] = i[c]
    /\ \A c \in (DOMAIN p) \ {"Location", "Year"} : m[c] = p[c]
    /\ m.KFF_Year = p.Year
    /\ m.CDC_Year = p.Year

\* the pairs (indicator row, premium row) of equal key
EqualKeyPairs ==
    {ip \in (1..Len(cdc_features.rows)) \X (1..Len(kff_long.rows)) :
        SameKey(cdc_features.rows[ip[1]], kff_long.rows[ip[2]])}

\* C15: merge_data returns one row for each pair (indicator row, premium
\* row) of equal region and equal year, and no other row: each pair of equal
\* key has as many joined rows in the result as there are pairs of the same
\* content, every row of the result is the joined row of a pair of equal
\* key, and a joined row carries KFF_Year = CDC_Year = the premium row's
\* year and the premium row's premium.
C15_OneRowPerEqualKeyPair ==
    Merged =>
        /\ \A ip \in EqualKeyPairs :
              LET i == cdc_features.rows[ip[1]]
                  p == kff_long.rows[ip[2]]
              IN Cardinality({k \in 1..Len(merged_df.rows) : IsJoinOf(merged_df.rows[k], i, p)})
                 = Cardinality({jq \in EqualKeyPairs :
                                   /\ cdc_features.rows[jq[1]] = i
                                   /\ kff_long.rows[jq[2]] = p})
        /\ \A k \in 1..Len(merged_df.rows) :
              \E ip \in EqualKeyPairs :
                  /\ IsJoinOf(merged_df.rows[k], cdc_features.rows[ip[1]], kff_long.rows[ip[2]])
                  /\ merged_df.rows[k].Premium_Y = kff_long.rows[ip[2]].Premium_Y
        /\ Len(merged_df.rows) = Cardinality(EqualKeyPairs)

\* a merge with joined rows, an indicator row without partner, a premium row
\* without partner, and a premium row of the same region one year away from
\* an indicator row
C15_Witness ==
    /\ Merged
    /\ merged_df.rows # <<>>
    /\ \E i \in 1..Len(cdc_features.rows) :
          /\ \A j \in 1..Len(kff_long.rows) : ~SameKey(cdc_features.rows[i], kff_long.rows[j])
          /\ \E j \in 1..Len(kff_long.rows) :
                /\ kff_long.rows[j].Location = cdc_features.rows[i].Location
                /\ kff_long.rows[j].Year = cdc_features.rows[i].CDC_Year + 1
    /\ \E j \in 1..Len(kff_long.rows) :
          \A i \in 1..Len(cdc_features.rows) : ~SameKey(cdc_features.rows[i], kff_long.rows[j])

\* ------------------------------------------------------------------------
\* preprocess_cdc in main(): the region codes
\* ------------------------------------------------------------------------
\* preprocess_cdc has just returned
CdcDone == pc = "merge_data"

\* the codes of the 50 states and of the District of Columbia (11)
FipsCodes == (1 .. 56) \ {3, 7, 14, 43, 52}

\* C16: the region-code table has 51 entries, the 50 states and the District
\* of Columbia, and preprocess_cdc gives a region name to every indicator row
\* that carries one of these codes.
C16_AllFiftyOneCodesResolve ==
    CdcDone =>
        /\ \A i \in 1..Len(cdc_df.rows) :
              cdc_df.rows[i]["_STATE"] \in FipsCodes => cdc_features.rows[i].Location # NaStr
        /\ Cardinality(DOMAIN state_fips_to_name) = Cardinality(FipsCodes)
        /\ Cardinality(FipsCodes) = 51

\* C17: an indicator row whose code is not in the table leaves preprocess_cdc
\* with a null region, and no row of the merged table has a null region,
\* whatever the premium table holds.
C17_NoNullRegionInMerge ==
    /\ CdcDone =>
          /\ Len(cdc_features.rows) = Len(cdc_df.rows)
          /\ \A i \in 1..Len(cdc_df.rows) :
                cdc_df.rows[i]["_STATE"] \notin DOMAIN state_fips_to_name
                    => cdc_features.rows[i].Location = NaStr
    /\ Merged => \A k \in 1..Len(merged_df.rows) : merged_df.rows[k].Location # NaStr

\* ------------------------------------------------------------------------
\* evaluate applied to a trained pipeline
\* ------------------------------------------------------------------------
MaxEvalRows == 2

\* targets (in currency) and the distance of a prediction from its target
EvalTargets == {100, 125, 200}
EvalDeviations == {-10, 0, 10, 20}

\* the feature matrix of n rows, each row its own leaf
EvalX(n) == Tup([i \in 1..n |-> <<i>>])

\* a trained pipeline that predicts p[i] (in currency) for row i of
\* EvalX(Len(p)): the base model predicts one currency unit less, the
\* residual model adds it
TrainedFor(p) ==
    LET unit == PredMul * Q
        base == Fcn([x \in Range(EvalX(Len(p))) |-> unit * (p[x[1]] - 1)])
        residual == Fcn([x \in Range(EvalX(Len(p))) |-> unit])
    IN [NewPipeline EXCEPT
           !.base_model = [fitted |-> TRUE, n_features |-> 1, base_score |-> 0,
                           best_iteration |-> 1, leaves |-> base],
           !.residual_model = [fitted |-> TRUE, n_features |-> 1, base_score |-> 0,
                               best_iteration |-> 1, leaves |-> residual]]

\* the sequences of length n over S
SeqsOf(S, n) == [1..n -> S]

EvalInputs ==
    UNION {{[fn |-> "evaluate", y |-> Tup([i \in 1..n |-> Num(ys[i])]),
             p |-> Tup([i \in 1..n |-> ys[i] + ds[i]])] :
               ys \in SeqsOf(EvalTargets, n), ds \in SeqsOf(EvalDeviations, n)} :
           n \in 1..MaxEvalRows}

ApplyEvaluate ==
    /\ pc = "apply"
    /\ input.fn = "evaluate"
    /\ LET X == EvalX(Len(input.y))
       IN ret' = IF evaluate_raises(objs["pipeline"], X, TRUE)
                 THEN Call("evaluate", "pipeline", <<X, input.y>>, TRUE, <<>>)
                 ELSE Call("evaluate", "pipeline", <<X, input.y>>, FALSE,
                           evaluate(objs["pipeline"], X, input.y))
    /\ pc' = "done"
    /\ UNCHANGED <<webVars, frames, xy, input, objs, file, calls, echo, kff_df, cdc_df, kff_long, cdc_features,
                   merged_df, merged_df_trends>>

\* C18: on a trained pipeline and positive targets y, with p = predict(X),
\* evaluate does not raise and returns a record of exactly the keys R2, MAE,
\* RMSE, MAPE with MAE = mean(|y - p|), RMSE = sqrt(mean((y - p)^2)) and
\* MAPE = mean(|y - p| / y) * 100, each rounded down to its unit (MAE and
\* RMSE 1 / (PredMul Q) of a currency unit, the percentage of a row and MAPE
\* a hundredth of a percent); y = [100, 200] and p = [110, 190] give
\* MAE = 10, RMSE = 10, MAPE = 7.5.
C18_EvaluateMetrics ==
    (ret.op = "evaluate") =>
        LET unit == PredMul * Q
            X == ret.args[1]
            n == Len(X)
            t == Tup([i \in 1..n |-> PredMul * Val(ret.args[2][i])])
            p == predict(objs["pipeline"], X)
            dist == Tup([i \in 1..n |-> IF t[i] < p[i] THEN p[i] - t[i] ELSE t[i] - p[i]])
            pct == Tup([i \in 1..n |->
                       CHOOSE q \in 0..(100 * 100 * 2) :
                           q * t[i] <= dist[i] * 100 * 100 /\ dist[i] * 100 * 100 < (q + 1) * t[i]])
            m == ret.value
        IN /\ ~ret.raised
           /\ DOMAIN m = {"R2", "MAE", "RMSE", "MAPE"}
           /\ n * m.MAE <= SumSeq(dist) /\ SumSeq(dist) < n * (m.MAE + 1)
           /\ n * m.RMSE * m.RMSE <= SumSeq(Tup([i \in 1..n |-> dist[i] * dist[i]]))
           /\ SumSeq(Tup([i \in 1..n |-> dist[i] * dist[i]])) < n * (m.RMSE + 1) * (m.RMSE + 1)
           /\ n * m.MAPE <= SumSeq(pct) /\ SumSeq(pct) < n * (m.MAPE + 1)
           /\ (t = <<100 * unit, 200 * unit>> /\ p = <<110 * unit, 190 * unit>>)
                  => (m.MAE = 10 * unit /\ m.RMSE = 10 * unit /\ m.MAPE = 750)

\* evaluate has returned for y = [100, 200] and p = [110, 190]
C18_Witness ==
    /\ ret.op = "evaluate" /\ ~ret.raised
    /\ ret.args[2] = <<Num(100), Num(200)>>
    /\ predict(objs["pipeline"], ret.args[1]) = <<110 * PredMul * Q, 190 * PredMul * Q>>
    /\ ret.value.MAE = 10 * PredMul * Q

\* ------------------------------------------------------------------------
\* main(): the partitions and the transforms
\* ------------------------------------------------------------------------
\* C19: in a run of main(), the tier encoder, the imputer, the scaler and
\* the feature list change in one step only, the prepare_features call on
\* the training partition: what they are after it is what fitting on the
\* rows of the years 2020-2022 of the merged table gives, and the calls on
\* the validation and the test partition leave them as they are.
C19_FittedOnTrainingPartitionOnly ==
    [][/\ Transforms(objs'["pipeline"]) # Transforms(objs["pipeline"]) =>
              /\ pc = "prepare_train"
              /\ \A i \in 1..Len(frames.train_df.rows) :
                     frames.train_df.rows[i].KFF_Year \in 2020..2022
              /\ frames.train_df = RowsOfYears(merged_df_trends, 2020..2022)
              /\ Transforms(objs'["pipeline"])
                     = Transforms(prepare_features(objs["pipeline"],
                                                   RowsOfYears(merged_df_trends, 2020..2022),
                                                   TRUE).self)
       /\ pc \in {"prepare_val", "prepare_test"} =>
              /\ Transforms(objs'["pipeline"]) = Transforms(objs["pipeline"])
              /\ pc = "prepare_val" /\ pc' # "raised" =>
                     xy'.val = [X |-> prepare_features(objs["pipeline"], frames.val_df, FALSE).X,
                                y_present |-> TRUE,
                                y |-> prepare_features(objs["pipeline"], frames.val_df, FALSE).y]
              /\ pc = "prepare_test" /\ pc' # "raised" =>
                     xy'.test = [X |-> prepare_features(objs["pipeline"], frames.test_df, FALSE).X,
                                 y_present |-> TRUE,
                                 y |-> prepare_features(objs["pipeline"], frames.test_df, FALSE).y]
      ]_vars

\* the three partitions have rows, the transforms are fitted and the
\* validation and the test partition have been transformed
C19_Witness ==
    /\ pc = "train"
    /\ objs["pipeline"].imputer.fitted /\ objs["pipeline"].scaler.fitted
    /\ frames.train_df.rows # <<>>
    /\ frames.val_df.rows # <<>> /\ Len(xy.val.X) = Len(frames.val_df.rows)
    /\ frames.test_df.rows # <<>> /\ Len(xy.test.X) = Len(frames.test_df.rows)

\* ------------------------------------------------------------------------
\* main(): the trend features and the partitions
\* ------------------------------------------------------------------------
\* the steps of main() in the order of its lines; "raised" ends a run
RunStages ==
    <<"preprocess_kff", "preprocess_cdc", "merge_data", "generate_trend_features", "split",
      "prepare_train", "prepare_val", "prepare_test", "train", "evaluate_train",
      "evaluate_val", "evaluate_test", "save", "done", "raised">>

StageRank(s) == CHOOSE k \in 1..Len(RunStages) : RunStages[k] = s

\* the rows of all three partitions
PartitionRows == frames.train_df.rows \o frames.val_df.rows \o frames.test_df.rows

\* C20: in a run of main(), generate_trend_features runs once, on the whole
\* merged table, and the table is partitioned by year only in the step after
\* it: no step is taken twice, the trend table is written only by the
\* generate_trend_features step and is then the trend features of the whole
\* merged table, the partitions are written only by the following step and
\* are the rows of that trend table of the years 2020-2022, 2023 and 2024;
\* so the lag of a row of a partition is the premium of the year before in
\* the merged table, whatever partition that year lies in.
C20_TrendsOnceBeforeSplit ==
    [][/\ StageRank(pc') > StageRank(pc)
       /\ merged_df_trends' # merged_df_trends =>
              /\ pc = "generate_trend_features"
              /\ merged_df_trends' = generate_trend_features(merged_df)
              /\ frames = NoFrames /\ frames' = NoFrames
       /\ frames' # frames =>
              /\ pc = "split"
              /\ merged_df_trends = generate_trend_features(merged_df)
              /\ frames'.train_df.rows
                     = SelectSeq(merged_df_trends.rows, LAMBDA r : r.KFF_Year \in 2020..2022)
              /\ frames'.val_df.rows
                     = SelectSeq(merged_df_trends.rows, LAMBDA r : r.KFF_Year = 2023)
              /\ frames'.test_df.rows
                     = SelectSeq(merged_df_trends.rows, LAMBDA r : r.KFF_Year = 2024)
       /\ pc' = "split" => pc = "generate_trend_features"
       /\ pc' = "prepare_train" =>
              \A k \in 1..Len(PartitionRows') : \A j \in 1..Len(merged_df.rows) :
                  (/\ merged_df.rows[j].Location = PartitionRows'[k].Location
                   /\ merged_df.rows[j].Metal_Tier = PartitionRows'[k].Metal_Tier
                   /\ merged_df.rows[j].KFF_Year = PartitionRows'[k].KFF_Year - 1)
                      => \E i \in 1..Len(merged_df.rows) :
                            /\ merged_df.rows[i].Location = PartitionRows'[k].Location
                            /\ merged_df.rows[i].Metal_Tier = PartitionRows'[k].Metal_Tier
                            /\ merged_df.rows[i].KFF_Year = PartitionRows'[k].KFF_Year - 1
                            /\ PartitionRows'[k].premium_lag1 = merged_df.rows[i].Premium_Y
      ]_vars

\* a training row of 2020 whose lags are the premiums of 2019 and 2018,
\* years of no partition
C20_Witness ==
    /\ pc = "prepare_train"
    /\ \E k \in 1..Len(frames.train_df.rows) :
          /\ frames.train_df.rows[k].KFF_Year = 2020
          /\ ~IsNa(frames.train_df.rows[k].premium_lag1)
          /\ ~IsNa(frames.train_df.rows[k].premium_lag2)
          /\ \E i, j \in 1..Len(merged_df.rows) :
                /\ merged_df.rows[i].KFF_Year = 2019
                /\ merged_df.rows[j].KFF_Year = 2018
                /\ merged_df.rows[i].Premium_Y = frames.train_df.rows[k].premium_lag1
                /\ merged_df.rows[j].Premium_Y = frames.train_df.rows[k].premium_lag2

\* ------------------------------------------------------------------------
\* train: the base fit, the residuals, the residual fit
\* ------------------------------------------------------------------------
\* the residuals of targets t against the predictions of model on X
ResidualsOf(model, X, t) == Tup([i \in 1..Len(t) |-> t[i] - XGBPredict(model, X)[i]])

\* the object after a train call on the prepared tables d and v (0: none) of
\* object o is as the steps of train in their order leave it
TrainedInOrder(o, d, v, after, raised) ==
    LET tr == Prepared(o, d)
        va == IF v = 0 THEN NoResult ELSE Prepared(o, v)
        t == Tup([i \in 1..Len(tr.y) |-> PredMul * Val(tr.y[i])])
        t_val == Tup([i \in 1..Len(va.y) |-> PredMul * Val(va.y[i])])
        base == XGBFit(tr.X, t, va.X, t_val)
        could_fit == /\ v # 0 /\ tr.y_present /\ va.y_present
                     /\ Len(tr.X) > 0 /\ Len(va.X) > 0
                     /\ Len(va.X[1]) = Len(tr.X[1])
    IN /\ ~raised =>
              /\ could_fit
              /\ after.base_model = base
              /\ after.residual_model
                     = XGBFit(tr.X, ResidualsOf(base, tr.X, t),
                              va.X, ResidualsOf(base, va.X, t_val))
       /\ raised =>
              /\ after.residual_model = objs[o].residual_model
              /\ after.base_model # objs[o].base_model =>
                     (could_fit /\ after.base_model = base)
       /\ \A a \in DOMAIN after :
              a \notin {"base_model", "residual_model"} => after[a] = objs[o][a]

\* C21: a train call that returns leaves as base model the fit on
\* (X_train, y_train) monitored on (X_val, y_val), and as residual model the
\* fit on (X_train, y_train - base.predict(X_train)) monitored on
\* (X_val, y_val - base.predict(X_val)), the predictions being those of the
\* base model just fitted; a train call that raises leaves the residual
\* model as it was, and the base model either as it was or as that fit: the
\* residual model is never fitted before the base fit has completed.
C21_BaseThenResidualsThenResidualFit ==
    [][ret'.op = "train" =>
          \E o \in {ret'.obj}, d \in {ret'.args[1]}, v \in {ret'.args[2]},
             after \in {objs'[ret'.obj]}, raised \in {ret'.raised} :
              TrainedInOrder(o, d, v, after, raised)
      ]_vars

\* a train call has returned, and the residual model is fitted on residuals
\* whose mean is not the mean of the targets
C21_Witness ==
    /\ ret.op = "train" /\ ~ret.raised
    /\ objs[ret.obj].base_model.fitted /\ objs[ret.obj].residual_model.fitted
    /\ objs[ret.obj].residual_model.base_score # objs[ret.obj].base_model.base_score
    /\ objs[ret.obj].base_model.leaves # objs[ret.obj].residual_model.leaves

\* C22: a train call without validation data, on a training table with
\* targets, returns without error and leaves the base model and the
\* residual model fitted.
C22_TrainWithoutValidationCompletes ==
    (/\ ret.op = "train" /\ ret.args[2] = 0
     /\ ~Prepared(ret.obj, ret.args[1]).raised
     /\ Prepared(ret.obj, ret.args[1]).y_present)
        => (~ret.raised /\ Trained(ret.obj))

\* ------------------------------------------------------------------------
\* generate_trend_features in main(): rows without a key in the index
\* ------------------------------------------------------------------------
\* the rows of df with the region and tier of row r and a premium
GroupOf(df, r) ==
    {j \in 1..Len(df.rows) :
        /\ df.rows[j].Location = r.Location /\ df.rows[j].Metal_Tier = r.Metal_Tier
        /\ ~IsNa(df.rows[j].Premium_Y)}

\* the (region, tier) of row r is not in the premium index of df: the region
\* is missing, or no row of the group has a premium
KeyAbsent(df, r) == r.Location = NaStr \/ GroupOf(df, r) = {}

\* out is df with the four trend fields added to each row, the rows of absent
\* key with four nulls and the others with the lags of their group
TrendsTolerant(df, out) ==
    /\ Len(out.rows) = Len(df.rows)
    /\ \A i \in 1..Len(df.rows) :
          LET r == out.rows[i]
              before == {j \in GroupOf(df, df.rows[i]) :
                            df.rows[j].KFF_Year = df.rows[i].KFF_Year - 1}
          IN /\ \A c \in DOMAIN df.rows[i] : r[c] = df.rows[i][c]
             /\ DOMAIN r = (DOMAIN df.rows[i]) \cup
                               {"premium_lag1", "premium_lag2", "trend_1y", "trend_2y_avg"}
             /\ KeyAbsent(df, df.rows[i]) =>
                    /\ IsNa(r.premium_lag1) /\ IsNa(r.premium_lag2)
                    /\ IsNa(r.trend_1y) /\ IsNa(r.trend_2y_avg)
             /\ ~KeyAbsent(df, df.rows[i]) =>
                    /\ before = {} => IsNa(r.premium_lag1)
                    /\ before # {} => \E j \in before : r.premium_lag1 = df.rows[j].Premium_Y
                    /\ IsNa(r.trend_1y) <=> (IsNa(r.premium_lag1) \/ IsNa(r.premium_lag2))
                    /\ ~IsNa(r.trend_1y) =>
                           Val(r.trend_1y) = Val(r.premium_lag1) - Val(r.premium_lag2)

\* C23: generate_trend_features does not fail because of a row's lookup: on
\* a merged table with rows it returns, a row whose (region, tier) is not in
\* the premium index gets four null trend fields, every other row gets the
\* lags of its group, and the output has the rows of the input in the order
\* of the input.
C23_AbsentKeyGivesNullTrends ==
    [][(pc = "generate_trend_features" /\ merged_df.rows # <<>>) =>
          /\ pc' = "split"
          /\ \E out \in {merged_df_trends'} : TrendsTolerant(merged_df, out)
      ]_vars

\* the trend features are computed for a table with a row without region
\* and a row with a lag
C23_Witness ==
    /\ pc = "split"
    /\ \E i \in 1..Len(merged_df_trends.rows) :
          /\ merged_df_trends.rows[i].Location = NaStr
          /\ IsNa(merged_df_trends.rows[i].premium_lag1)
    /\ \E i \in 1..Len(merged_df_trends.rows) :
          /\ merged_df_trends.rows[i].Location # NaStr
          /\ ~IsNa(merged_df_trends.rows[i].premium_lag1)

\* ------------------------------------------------------------------------
\* prepare_features in main(): the columns of the matrix
\* ------------------------------------------------------------------------
\* the indicator names of the mapping that are columns of df, in the order
\* of the mapping
IndicatorsIn(df) == SelectSeq(HealthValues, LAMBDA c : HasCol(df, c))

\* the partition a result of prepare_features in main() was made from
FrameOf(name) ==
    IF name = "train" THEN frames.train_df
    ELSE IF name = "val" THEN frames.val_df ELSE frames.test_df

\* C24: the matrix prepare_features returns has one column for each entry of
\* the frozen feature list and in its order: the indicator columns present
\* at fit time in the order of the indicator mapping, then premium_lag1,
\* premium_lag2, trend_1y, trend_2y_avg, then the encoded tier; with
\* training=False the count is the one frozen at fit time; the target is
\* the premium column when the table has one.
C24_MatrixInFrozenColumnOrder ==
    \A name \in {"train", "val", "test"} :
        xy[name].X # <<>> =>
            /\ objs["pipeline"].feature_cols
                   = IndicatorsIn(frames.train_df)
                         \o <<"premium_lag1", "premium_lag2", "trend_1y", "trend_2y_avg">>
                         \o <<"Metal_Tier">>
            /\ \A i \in 1..Len(xy[name].X) :
                   Len(xy[name].X[i]) = Len(objs["pipeline"].feature_cols)
            /\ xy[name].y_present = HasCol(FrameOf(name), "Premium_Y")
            /\ xy[name].y_present =>
                   xy[name].y = Tup([i \in 1..Len(FrameOf(name).rows) |->
                                        FrameOf(name).rows[i].Premium_Y])

\* ------------------------------------------------------------------------
\* prepare_features(training=False): a tier the encoder has not seen
\* ------------------------------------------------------------------------
\* C25: prepare_features(training=False) on a table with a tier label that
\* is not among the classes of the fitted tier encoder raises and returns no
\* matrix.
C25_UnseenTierRaises ==
    (/\ ret.op = "prepare_features" /\ ~ret.args[2]
     /\ objs[ret.obj].le_metal.fitted
     /\ HasCol(DFs[ret.args[1]], "Metal_Tier")
     /\ \E i \in 1..Len(DFs[ret.args[1]].rows) :
            \A k \in 1..Len(objs[ret.obj].le_metal.classes) :
                objs[ret.obj].le_metal.classes[k] # DFs[ret.args[1]].rows[i].Metal_Tier)
        => (ret.raised /\ ret.value.X = <<>> /\ ~ret.value.y_present)

\* the fitted object, with every column of its feature list in the table,
\* was given a Gold row and its encoder has no Gold class
C25_Witness ==
    /\ ret.op = "prepare_features" /\ ~ret.args[2] /\ ret.raised
    /\ objs[ret.obj].le_metal.fitted /\ objs[ret.obj].scaler.fitted
    /\ \A k \in 1..Len(objs[ret.obj].feature_cols) :
           HasCol(DFs[ret.args[1]], objs[ret.obj].feature_cols[k])
    /\ \E i \in 1..Len(DFs[ret.args[1]].rows) : DFs[ret.args[1]].rows[i].Metal_Tier = "Gold"
    /\ ~Contains(objs[ret.obj].le_metal.classes, "Gold")

\* ------------------------------------------------------------------------
\* main(): the tables handed to the stages
\* ------------------------------------------------------------------------
\* C28: no stage changes the table it is given: preprocess_kff leaves
\* kff_df, preprocess_cdc leaves cdc_df, merge_data leaves kff_long and
\* cdc_features, generate_trend_features leaves merged_df and
\* prepare_features leaves the partition, in columns and in values.
C28_StagesLeaveTheirInput ==
    [][/\ pc = "preprocess_kff" => kff_df' = kff_df
       /\ pc = "preprocess_cdc" => cdc_df' = cdc_df
       /\ pc = "merge_data" => (kff_long' = kff_long /\ cdc_features' = cdc_features)
       /\ pc = "generate_trend_features" => merged_df' = merged_df
       /\ pc \in {"prepare_train", "prepare_val", "prepare_test"} => frames' = frames
      ]_vars

\* ------------------------------------------------------------------------
\* prepare_features: a call that raises
\* ------------------------------------------------------------------------
\* C29: a prepare_features call that raises, with training=True or with
\* training=False, leaves the feature list, the tier encoder, the imputer
\* and the scaler of the object as they were before the call.
C29_RaisingPrepareLeavesState ==
    [][(ret'.op = "prepare_features" /\ ret'.raised) =>
          \E o \in {ret'.obj} : Transforms(objs'[o]) = Transforms(objs[o])
      ]_vars

\* ------------------------------------------------------------------------
\* generate_trend_features: the order of the rows
\* ------------------------------------------------------------------------
\* position k after rows i and j have changed places
Swapped(i, j, k) == IF k = i THEN j ELSE IF k = j THEN i ELSE k

\* table t with rows i and j in each other's place
SwapRows(t, i, j) == Table(t.columns, Tup([k \in 1..Len(t.rows) |-> t.rows[Swapped(i, j, k)]]))

\* C30: the trend features of a row do not depend on the order of the rows
\* of the table: when two rows of the merged table change places, every row
\* gets the premium_lag1, premium_lag2, trend_1y and trend_2y_avg it got
\* before, the Silver rows included.
C30_TrendsIndependentOfRowOrder ==
    TrendsDone =>
        \A i, j \in 1..Len(merged_df.rows) :
            i < j =>
                LET out == generate_trend_features(SwapRows(merged_df, i, j))
                IN \A k \in 1..Len(merged_df.rows) :
                       \A c \in {"premium_lag1", "premium_lag2", "trend_1y", "trend_2y_avg"} :
                           out.rows[Swapped(i, j, k)][c] = merged_df_trends.rows[k][c]

\* ------------------------------------------------------------------------
\* The web layer (Part4/app.py): get_db_engine, init_db_engine and
\* get_available_ages, executed by the threads of one process.  A step of
\* a thread is what the code does between two points where another thread
\* can run: the test of the global, the reading of the configuration, the
\* call of create_engine, the store into the global, the load of the
\* global for the return.

\* the threads that serve requests; "main" runs the start of the process
Workers == {"t1", "t2"}

Threads == Workers \cup {"main"}

\* str() of a non-negative integer, as a sequence of characters
RECURSIVE DecimalOf(_)
DecimalOf(n) == IF n < 10 THEN <<Digits[n + 1]>> ELSE DecimalOf(n \div 10) \o <<Digits[(n % 10) + 1]>>

\* a value of the Age column: an integer or a text
IntAge(n) == [kind |-> "int", n |-> n, s |-> <<>>]

StrAge(chars) == [kind |-> "str", n |-> 0, s |-> chars]

\* str(row[0])
StrOf(age) == IF age.kind = "int" THEN DecimalOf(age.n) ELSE age.s

\* ages = [str(row[0]) for row in result if row[0] is not None]
AgesOf(rows) == Tup([k \in 1 .. Len(rows) |-> StrOf(rows[k])])

\* fallback_ages = [str(age) for age in range(18, 101)]
fallback_ages == Tup([k \in 1 .. (101 - 18) |-> DecimalOf(18 + k - 1)])

\* the rows SELECT DISTINCT Age ... WHERE Age IS NOT NULL ORDER BY Age
\* can give: none, integers, or the texts and integers of an age band table
DbAges == {<<>>, <<IntAge(20), IntAge(21)>>, <<StrAge(<<"0", "-", "1", "4">>), IntAge(15)>>}

Idle == [pc |-> "idle", op |-> "none", engine |-> 0, done |-> "none", ages |-> <<>>, raised |-> FALSE]

\* thread t moves on with the fields of r changed
Moved(t, r) == threads' = [threads EXCEPT ![t] = r @@ threads[t]]

\* the request of thread t ends with the list ages, or by raising
Ended(t, ages, raised) == Moved(t, [pc |-> "idle", op |-> "none", engine |-> 0, done |-> threads[t].op, ages |-> ages, raised |-> raised])

\* the process after the request of thread t: app.run follows
\* init_db_engine, and an exception of init_db_engine ends the process
AfterRequest(t, raised) == pc' = (IF t = "main" THEN (IF raised THEN "crashed" ELSE "serving") ELSE pc)

\* get_db_engine returns e to its caller in thread t
EngineReturned(t, e) ==
    /\ returned' = returned \cup ({e} \ {0})
    /\ CASE threads[t].op = "get_db_engine" ->
              Ended(t, <<>>, FALSE) /\ AfterRequest(t, FALSE)
         [] threads[t].op = "init_db_engine" ->
              \* engine = get_db_engine(); if engine: ... else: print
              IF e # 0
                THEN Moved(t, [pc |-> "init_test", engine |-> e]) /\ UNCHANGED pc
                ELSE Ended(t, <<>>, FALSE) /\ AfterRequest(t, FALSE)
         [] threads[t].op = "get_available_ages" ->
              \* engine = get_db_engine(); ages = []; if engine:
              /\ Moved(t, [pc |-> IF e # 0 THEN "ages_query" ELSE "ages_fallback", engine |-> e])
              /\ UNCHANGED pc

\* get_db_engine: if _db_engine is not None: return _db_engine
EngineCheck(t) ==
    /\ threads[t].pc = "engine_check"
    /\ IF _db_engine # 0
         THEN EngineReturned(t, _db_engine)
         ELSE Moved(t, [pc |-> "engine_config"]) /\ UNCHANGED <<returned, pc>>
    /\ UNCHANGED <<_db_engine, config, driver_ok, created, db, cache_file, calls, pipelineVars>>

\* get_db_engine: the configuration file is absent (return None), lacks a
\* key (config['USERNAME'] raises KeyError, outside the try) or is complete
EngineConfig(t) ==
    /\ threads[t].pc = "engine_config"
    /\ CASE config = "absent" -> EngineReturned(t, 0)
         [] config = "incomplete" -> Ended(t, <<>>, TRUE) /\ AfterRequest(t, TRUE) /\ UNCHANGED returned
         [] config = "complete" -> Moved(t, [pc |-> "engine_create"]) /\ UNCHANGED <<returned, pc>>
    /\ UNCHANGED <<_db_engine, config, driver_ok, created, db, cache_file, calls, pipelineVars>>

\* get_db_engine: create_engine(conn_str) gives a new engine, or raises
\* and None is returned
EngineCreate(t) ==
    /\ threads[t].pc = "engine_create"
    /\ IF driver_ok
         THEN /\ created' = created + 1
              /\ Moved(t, [pc |-> "engine_store", engine |-> created + 1])
              /\ UNCHANGED <<returned, pc>>
         ELSE /\ EngineReturned(t, 0)
              /\ UNCHANGED created
    /\ UNCHANGED <<_db_engine, config, driver_ok, db, cache_file, calls, pipelineVars>>

\* get_db_engine: _db_engine = <the new engine>
EngineStore(t) ==
    /\ threads[t].pc = "engine_store"
    /\ _db_engine' = threads[t].engine
    /\ Moved(t, [pc |-> "engine_return"])
    /\ UNCHANGED <<config, driver_ok, created, returned, db, cache_file, calls, pc, pipelineVars>>

\* get_db_engine: return _db_engine, which loads the global
EngineReturn(t) ==
    /\ threads[t].pc = "engine_return"
    /\ EngineReturned(t, _db_engine)
    /\ UNCHANGED <<_db_engine, config, driver_ok, created, db, cache_file, calls, pipelineVars>>

\* init_db_engine: the connection test; its exception is caught
InitTest(t) ==
    /\ threads[t].pc = "init_test"
    /\ Ended(t, <<>>, FALSE)
    /\ AfterRequest(t, FALSE)
    /\ UNCHANGED <<_db_engine, config, driver_ok, created, returned, db, cache_file, calls, pipelineVars>>

\* json.load(f) gives a non-empty list
CacheValid == cache_file.exists /\ Len(cache_file.data) > 0

\* get_available_ages: the cache file, when it holds a non-empty list, is
\* the answer; the strings it holds are their own str()
AgesCache(t) ==
    /\ threads[t].pc = "ages_cache"
    /\ IF CacheValid
         THEN Ended(t, cache_file.data, FALSE)
         ELSE Moved(t, [pc |-> "engine_check"])
    /\ UNCHANGED <<_db_engine, config, driver_ok, created, returned, db, cache_file, calls, pc, pipelineVars>>

\* get_available_ages: the query; its ages, when there are any, are saved
\* (the write may fail) and returned; an exception or no age leads to
\* the fallback
AgesQuery(t) ==
    /\ threads[t].pc = "ages_query"
    /\ IF db.up /\ AgesOf(db.ages) # <<>>
         THEN /\ \E saved \in BOOLEAN :
                   cache_file' = IF saved THEN [exists |-> TRUE, data |-> AgesOf(db.ages)] ELSE cache_file
              /\ Ended(t, AgesOf(db.ages), FALSE)
         ELSE /\ Moved(t, [pc |-> "ages_fallback"])
              /\ UNCHANGED cache_file
    /\ UNCHANGED <<_db_engine, config, driver_ok, created, returned, db, calls, pc, pipelineVars>>

\* get_available_ages: the fallback is saved to the cache file (the write
\* may fail) and returned
AgesFallback(t) ==
    /\ threads[t].pc = "ages_fallback"
    /\ \E saved \in BOOLEAN :
         cache_file' = IF saved THEN [exists |-> TRUE, data |-> fallback_ages] ELSE cache_file
    /\ Ended(t, fallback_ages, FALSE)
    /\ UNCHANGED <<_db_engine, config, driver_ok, created, returned, db, calls, pc, pipelineVars>>

\* python app.py: init_db_engine() runs in the main thread before app.run
StartWithInit ==
    /\ pc = "startup"
    /\ pc' = "init"
    /\ Moved("main", [pc |-> "engine_check", op |-> "init_db_engine"])
    /\ UNCHANGED <<_db_engine, config, driver_ok, created, returned, db, cache_file, calls, pipelineVars>>

\* the module imported by a WSGI server: init_db_engine does not run
StartImported ==
    /\ pc = "startup"
    /\ pc' = "serving"
    /\ UNCHANGED <<webVars, calls, pipelineVars>>

\* a request reaches a free thread: a handler that calls get_db_engine, or
\* one that calls get_available_ages
Request(t, op) ==
    /\ pc = "serving"
    /\ threads[t].pc = "idle"
    /\ Called
    /\ Moved(t, [pc |-> IF op = "get_db_engine" THEN "engine_check" ELSE "ages_cache", op |-> op])
    /\ UNCHANGED <<_db_engine, config, driver_ok, created, returned, db, cache_file, pc, pipelineVars>>

\* the configuration file is written or completed while the process runs
ConfigWritten ==
    /\ pc = "serving"
    /\ config # "complete"
    /\ config' = "complete"
    /\ UNCHANGED <<_db_engine, driver_ok, created, returned, db, cache_file, threads, calls, pc, pipelineVars>>

\* the database becomes unavailable, or available
DbChanges ==
    /\ pc = "serving"
    /\ db' = [db EXCEPT !.up = ~db.up]
    /\ UNCHANGED <<_db_engine, config, driver_ok, created, returned, cache_file, threads, calls, pc, pipelineVars>>

InitWeb ==
    /\ input = NoInput
    /\ objs = <<>>
    /\ file = <<>>
    /\ ret = NoCall
    /\ echo = "other"
    /\ calls = 0
    /\ pc = "startup"
    /\ kff_df = EmptyTable
    /\ cdc_df = EmptyTable
    /\ kff_long = EmptyTable
    /\ cdc_features = EmptyTable
    /\ merged_df = EmptyTable
    /\ merged_df_trends = EmptyTable
    /\ frames = NoFrames
    /\ xy = NoXY
    /\ _db_engine = 0
    /\ config \in {"absent", "incomplete", "complete"}
    /\ driver_ok \in BOOLEAN
    /\ created = 0
    /\ returned = {}
    /\ db \in [up : BOOLEAN, ages : DbAges]
    /\ cache_file = [exists |-> FALSE, data |-> <<>>]
    /\ threads = [t \in Threads |-> Idle]

NextWeb ==
    \/ StartWithInit
    \/ StartImported
    \/ \E t \in Workers, op \in {"get_db_engine", "get_available_ages"} : Request(t, op)
    \/ \E t \in Threads : EngineCheck(t)
    \/ \E t \in Threads : EngineConfig(t)
    \/ \E t \in Threads : EngineCreate(t)
    \/ \E t \in Threads : EngineStore(t)
    \/ \E t \in Threads : EngineReturn(t)
    \/ \E t \in Threads : InitTest(t)
    \/ \E t \in Threads : AgesCache(t)
    \/ \E t \in Threads : AgesQuery(t)
    \/ \E t \in Threads : AgesFallback(t)
    \/ ConfigWritten
    \/ DbChanges

SpecWeb == InitWeb /\ [][NextWeb]_vars

\* C26: while a configuration file exists, create_engine succeeds at most
\* once in the process and every caller of get_db_engine that receives an
\* engine receives the same one, whatever the interleaving of the requests.
C26_EngineCreatedOnce == config # "absent" => created <= 1 /\ Cardinality(returned) <= 1

\* C27: the cache file only ever holds the ages read from the database, and
\* a call of get_available_ages made while the database is available (it
\* starts and returns in one step, with the engine obtainable and the query
\* answering) returns the database's ages.
C27_CacheHoldsOnlyDatabaseAges ==
    [][/\ cache_file'.exists => cache_file'.data = AgesOf(db.ages)
       /\ \A t \in Workers :
            ( /\ threads[t].pc = "ages_cache"
              /\ threads'[t].done = "get_available_ages"
              /\ threads'[t].pc = "idle"
              /\ ~threads'[t].raised
              /\ db.up /\ config = "complete" /\ driver_ok /\ AgesOf(db.ages) # <<>> )
            => threads'[t].ages = AgesOf(db.ages)
      ]_vars

\* ------------------------------------------------------------------------
\* The specification of the functions applied on their own
\* ------------------------------------------------------------------------
PureInputs == TierInputs \cup KffInputs \cup EvalInputs

InitPure ==
    /\ input \in PureInputs
    /\ objs = Fcn([o \in {"pipeline"} |->
                  IF input.fn = "evaluate" THEN TrainedFor(input.p) ELSE NewPipeline])
    /\ file = <<>>
    /\ ret = NoCall
    /\ calls = 0
    /\ echo = "other"
    /\ pc = "apply"
    /\ kff_df = EmptyTable
    /\ cdc_df = EmptyTable
    /\ kff_long = EmptyTable
    /\ cdc_features = EmptyTable
    /\ merged_df = EmptyTable
    /\ merged_df_trends = EmptyTable
    /\ frames = NoFrames
    /\ xy = NoXY
    /\ NoWeb

NextPure ==
    \/ ApplyExtractMetalTier
    \/ ApplyPreprocessKff
    \/ ApplyEvaluate

SpecPure == InitPure /\ [][NextPure]_vars

====
